---------------------------- MODULE Spec2Model ----------------------------
(***************************************************************************)
(* A model of egui_hex06's range-block core (src/range_blocks.rs): the     *)
(* coordinate mapper, the recursion math, the two range-block iterators,   *)
(* the three Cacheable aggregators and RangeBlockCache::generate.          *)
(*                                                                         *)
(* and of its boundary extraction (src/range_border.rs).                   *)
(*                                                                         *)
(* Eight specifications share the module:                                  *)
(*   Spec       calls of the pure functions, one call per step;            *)
(*   IterSpec   a RangeBlockIterator or CompleteLargestRangeBlockIterator  *)
(*              is constructed and next() is called until it returns None; *)
(*   CacheSpec  buffers are loaded and the caches are generated from them; *)
(*   CallSpec   one call of a public function with any u64 arguments, the  *)
(*              invalid ones and the ones next to u64::MAX included;       *)
(*   BorderSpec rectangles are added to a RangeBorder and its loops are    *)
(*              extracted;                                                 *)
(*   AppSpec    files are dropped on the HexApp and its active file is     *)
(*              switched;                                                  *)
(*   SearchSpec the loop of next_range_block runs one turn per step under  *)
(*              an iterator, each answer of the predicate drawn when it is *)
(*              asked;                                                     *)
(*   AnyBorderSpec  any rectangles, degenerate, inverted and overlapping   *)
(*              ones included, are added to a RangeBorder.                 *)
(***************************************************************************)
EXTENDS Integers, Sequences, FiniteSets, TLC

VARIABLES
    args,       \* Spec: the arguments of the last pure-function call
    ret,        \* Spec: what that call returned
    iter,       \* IterSpec: the iterator struct (its fields)
    iter0,      \* IterSpec: the iterator struct as constructed
    yielded,    \* IterSpec: the items next() has returned so far, in order
    exhausted,  \* IterSpec: next() has returned None
    data0,      \* CacheSpec: the first buffer
    data1,      \* CacheSpec: the second buffer
    cache_sqrt, \* CacheSpec: the sub_block_sqrt the caches are generated with
    generated,  \* CacheSpec: the caches have been generated from the buffers
    sum_cache,  \* CacheSpec: generate(RangeBlockSum(data0))
    color_cache,\* CacheSpec: generate(RangeBlockColorSum(data0, byte_color))
    diff_cache, \* CacheSpec: generate(RangeBlockDiff(data0, data1))
    overflow_checks, \* the build's profile: TRUE when arithmetic overflow panics
                     \* (debug), FALSE when it wraps (release)
    range_border,    \* BorderSpec: the RangeBorder (next_edge_id, edges)
    rects,           \* BorderSpec: the arguments of the add_rect calls so far
    loops,           \* BorderSpec: what the extraction of the loops gave
    hex_app          \* AppSpec: the HexApp (its buffers, caches and active file)

fnVars == <<args, ret>>
iterVars == <<iter, iter0, yielded, exhausted>>
cacheVars == <<data0, data1, cache_sqrt, generated, sum_cache, color_cache,
               diff_cache>>
borderVars == <<range_border, rects, loops>>
appVars == <<hex_app>>
vars == <<args, ret, iter, iter0, yielded, exhausted,
          data0, data1, cache_sqrt, generated, sum_cache, color_cache, diff_cache,
          overflow_checks, range_border, rects, loops, hex_app>>

---------------------------------------------------------------------------
(* Bounds of the model.                                                    *)

\* Largest branch factor (sub_block_sqrt) drawn for the recursion math, the
\* coordinate mapper and the caches; the smallest valid one is 2.
MaxSqrt == 4
\* Largest branch factor drawn for the iterators and the aggregators.
MaxIterSqrt == 3
\* Largest data length drawn for max_recursion_level, besides the f32 probes.
MaxDataLen == 260
\* Highest recursion level drawn for the coordinate mapper.
MaxCellLevel == 2
\* Largest offset drawn for the coordinate mapper.
MaxCellIndex == 255
\* Longest buffer drawn, besides the 256-byte scenario buffer.
MaxBufLen == 18
\* Buffers are drawn from the patterns 0..MaxSeed.
MaxSeed == 2
\* Longest range drawn for the iterators (data_len, limit_index).
MaxIterLen == 17
\* Highest recursion level (ceiling) drawn for the iterators.
MaxIterLevel == 3
\* Highest level of a block whose children are combined.
MaxAggLevel == 2
\* Blocks combined are the first MaxBlockIndex + 1 blocks of their level.
MaxBlockIndex == 1
\* Largest small offset or length drawn for a call in CallSpec.
MaxCallIndex == 10
\* The u64 values next to u64::MAX drawn are u64::MAX - MaxNearMax + 1 .. u64::MAX.
MaxNearMax == 3
\* Highest recursion level drawn for a call in CallSpec.
MaxCallLevel == 2
\* Counts drawn for the aggregators: 0..MaxSmallCount and the block sizes.
MaxSmallCount == 4
\* BorderSpec: the rectangles added lie on a grid of GridW x GridH cells.
GridW == 3
GridH == 2
\* BorderSpec: at most so many rectangles of the grid are added to one border.
MaxRects == 3

\* Option<T>: None is the empty tuple, Some(v) the one-element tuple.
None == <<>>
Some(v) == <<v>>

Min(a, b) == IF a <= b THEN a ELSE b
Max(a, b) == IF a >= b THEN a ELSE b

RECURSIVE Pow(_, _)
\* u64::pow; the model's inputs keep every power far below 2^31.
Pow(base, exp) == IF exp = 0 THEN 1 ELSE base * Pow(base, exp - 1)

\* u64 values. The values the model draws are the small ones and the ones
\* next to u64::MAX; the latter are written as negative integers, -j standing
\* for 2^64 - j. The integer sum of two such representatives is then the
\* wrapped u64 sum, and the operators below give the u64 order, the overflow
\* of a sum and the u64 remainder on the representatives.
U64Lt(a, b) == IF (a < 0) = (b < 0) THEN a < b ELSE b < 0
U64Min(a, b) == IF U64Lt(b, a) THEN b ELSE a

\* a + b passes u64::MAX.
U64Overflows(a, b) ==
    IF a < 0 /\ b < 0 THEN TRUE
    ELSE IF a >= 0 /\ b >= 0 THEN FALSE
    ELSE a + b >= 0

\* 2^64 % m, by squaring 2^16 % m twice.
TwoTo64Mod(m) ==
    LET t16 == Pow(2, 16) % m
        t32 == (t16 * t16) % m
    IN (t32 * t32) % m

\* n % m on u64, for m > 0.
U64Mod(n, m) == IF n >= 0 THEN n % m ELSE (TwoTo64Mod(m) + (n % m)) % m

\* The result of a call is a record: panic is TRUE when the call aborted,
\* value is what it returned. Panic is a failed assert! or expect.
Panic == [panic |-> TRUE, value |-> None]
Returns(option) == [panic |-> FALSE, value |-> option]

\* The panics that are not a failed assert! or expect, and the loop that
\* never exits.
Overflow ==
    [panic |-> TRUE, value |-> None, message |-> "attempt to add with overflow"]
SliceOrder ==
    [panic |-> TRUE, value |-> None, message |-> "slice index starts after its end"]
DivideByZero ==
    [panic |-> TRUE, value |-> None, message |-> "remainder with a divisor of zero"]
Diverges ==
    [panic |-> FALSE, value |-> None, message |-> "the loop never exits"]

---------------------------------------------------------------------------
(* Coordinate mapper.                                                      *)

CellCoords(x, y) == [x |-> x, y |-> y]

RECURSIVE CellOffsetLoop_row_mod(_, _, _, _, _)
\* Mutant: the row is taken with % instead of /.
CellOffsetLoop_row_mod(index, sub_block_sqrt, scale, x, y) ==
    IF index > 0
    THEN LET sub_block_count == sub_block_sqrt * sub_block_sqrt
             sub_block_index == index % sub_block_count
         IN CellOffsetLoop_row_mod(index \div sub_block_count, sub_block_sqrt,
                           scale * sub_block_sqrt,
                           x + (sub_block_index % sub_block_sqrt) * scale,
                           y + (sub_block_index % sub_block_sqrt) * scale)
    ELSE CellCoords(x, y)

RECURSIVE CellOffsetLoop(_, _, _, _, _)
\* The while loop of get_cell_offset: one base-(sqrt^2) digit of index per turn.
CellOffsetLoop(index, sub_block_sqrt, scale, x, y) ==
    IF index > 0
    THEN LET sub_block_count == sub_block_sqrt * sub_block_sqrt
             sub_block_index == index % sub_block_count
         IN CellOffsetLoop(index \div sub_block_count, sub_block_sqrt,
                           scale * sub_block_sqrt,
                           x + (sub_block_index % sub_block_sqrt) * scale,
                           y + (sub_block_index \div sub_block_sqrt) * scale)
    ELSE CellCoords(x, y)

get_cell_offset(index, sub_block_sqrt) ==
    CellOffsetLoop(index, sub_block_sqrt, 1, 0, 0)

\* A call of get_cell_offset with any branch factor. The function checks
\* nothing: index 0 never enters the loop; with sub_block_sqrt = 0 the first
\* turn takes index % 0; with sub_block_sqrt = 1 a turn leaves index, scale, x
\* and y as they were, so the loop is never left.
get_cell_offset_outcome(index, sub_block_sqrt) ==
    LET sub_block_count == sub_block_sqrt * sub_block_sqrt
    IN IF index > 0 /\ sub_block_count = 0 THEN DivideByZero
       ELSE IF index > 0 /\ index \div sub_block_count = index
                         /\ 1 * sub_block_sqrt = 1
       THEN Diverges
       ELSE Returns(get_cell_offset(index, sub_block_sqrt))

\* Mutant: the bottom-right corner is the last cell's own corner.
range_block_corners_inclusive(index, count, sub_block_sqrt) ==
    <<get_cell_offset(index, sub_block_sqrt),
      get_cell_offset(index + count - 1, sub_block_sqrt)>>

\* range_block_corners, for count >= 1.
range_block_corners(index, count, sub_block_sqrt) ==
    LET top_left == get_cell_offset(index, sub_block_sqrt)
        bottom_right == get_cell_offset(index + count - 1, sub_block_sqrt)
    IN <<top_left, CellCoords(bottom_right.x + 1, bottom_right.y + 1)>>

\* A call of range_block_corners with any branch factor: the first call of
\* get_cell_offset that does not return decides.
range_block_corners_outcome(index, count, sub_block_sqrt) ==
    LET first == get_cell_offset_outcome(index, sub_block_sqrt)
        second == get_cell_offset_outcome(index + count - 1, sub_block_sqrt)
    IN IF first # Returns(first.value) THEN first
       ELSE IF second # Returns(second.value) THEN second
       ELSE Returns(range_block_corners(index, count, sub_block_sqrt))

---------------------------------------------------------------------------
(* Recursion math.                                                         *)

range_block_size(recursion_level, sub_block_sqrt) ==
    Pow(sub_block_sqrt, 2 * recursion_level)

RECURSIVE FloorLog2(_)
FloorLog2(n) == IF n <= 1 THEN 0 ELSE 1 + FloorLog2(n \div 2)

\* The significand of an f32 has 24 bits.
F32_MANTISSA_DIGITS == 24

\* `n as f32`: the nearest value with a 24-bit significand, ties to even.
AsF32(n) ==
    LET e == FloorLog2(n)
    IN IF e < F32_MANTISSA_DIGITS THEN n
       ELSE LET ulp == Pow(2, e - (F32_MANTISSA_DIGITS - 1))
                q == n \div ulp
                r == n % ulp
            IN IF 2 * r > ulp \/ (2 * r = ulp /\ q % 2 = 1)
               THEN (q + 1) * ulp
               ELSE q * ulp

RECURSIVE CeilLogFrom(_, _, _, _)
CeilLogFrom(x, base, level, size) ==
    IF size >= x THEN level ELSE CeilLogFrom(x, base, level + 1, size * base)

\* x.log(base).ceil() as u32 on f32 values x and base. x = 0 gives -inf, which
\* the cast to u32 saturates to 0. The quotient ln(x)/ln(base) is rounded to 24
\* bits; for the values this model draws (x below 2^21, and x = 2^24) the
\* rounded quotient has the ceiling of the exact logarithm.
F32LogCeil(x, base) == CeilLogFrom(x, base, 0, 1)

\* Mutant: the logarithm is taken to the base sub_block_sqrt, not its square.
max_recursion_level_base_sqrt(data_len, sub_block_sqrt) ==
    F32LogCeil(AsF32(data_len), AsF32(sub_block_sqrt))

max_recursion_level(data_len, sub_block_sqrt) ==
    F32LogCeil(AsF32(data_len), AsF32(sub_block_sqrt * sub_block_sqrt))

---------------------------------------------------------------------------
(* Range-block traversal.                                                  *)
(* A block is the pair <<index, count>>. The searches return a result      *)
(* record (see Panic and Returns above).                                   *)


\* Mutant: rounds up even an index that is already aligned.
next_multiple_of_strict(n, m) == n + (m - (n % m))

\* Rounds down to a multiple instead of up.
next_multiple_of_down(n, m) == n - U64Mod(n, m)

\* u64::next_multiple_of; the sum wraps when it passes u64::MAX.
next_multiple_of(n, m) ==
    IF U64Mod(n, m) = 0 THEN n ELSE n + (m - U64Mod(n, m))

\* The sum inside next_multiple_of passes u64::MAX.
next_multiple_of_overflows(n, m) ==
    U64Mod(n, m) # 0 /\ U64Overflows(n, m - U64Mod(n, m))

SetMax(S) == CHOOSE m \in S : \A o \in S : o <= m

\* Block inner lies within block outer.
Within(inner, outer) ==
    outer[1] <= inner[1] /\ inner[1] + inner[2] <= outer[1] + outer[2]

BlockEnd(block) == block[1] + block[2]

\* Mutant: the predicate is asked about the block's first cell only.
Accepts_first_cell(fn_filter, index, count) == <<index, 1>> \notin fn_filter

\* fn_filter is modelled by the set of blocks it answers false for.
Accepts(fn_filter, index, count) == <<index, count>> \notin fn_filter

RECURSIVE next_range_block_loop(_, _, _, _, _, _)
\* The loop of next_range_block, one turn per unfolding.
next_range_block_loop(search_start_index, data_len, target_recursion_level, max_recursion_level_, sub_block_sqrt, fn_filter) ==
    IF ~(target_recursion_level <= max_recursion_level_) THEN Panic
    ELSE
    LET target_alignment == range_block_size(target_recursion_level, sub_block_sqrt)
        next_aligned_index == next_multiple_of(search_start_index, target_alignment)
    IN IF overflow_checks
          /\ next_multiple_of_overflows(search_start_index, target_alignment)
       THEN Overflow
       ELSE IF ~U64Lt(next_aligned_index, data_len) THEN Returns(None)
       ELSE
       LET aligned == {i \in target_recursion_level..max_recursion_level_ :
                          U64Mod(next_aligned_index,
                                 range_block_size(i, sub_block_sqrt)) = 0}
       IN IF aligned = {} THEN Panic
          ELSE
          LET max_aligned_recursion_level == SetMax(aligned)
              max_aligned_recursion_level_block_size ==
                  range_block_size(max_aligned_recursion_level, sub_block_sqrt)
          IN IF Accepts(fn_filter, next_aligned_index,
                        max_aligned_recursion_level_block_size)
             THEN IF max_aligned_recursion_level = target_recursion_level
                  THEN Returns(Some(<<next_aligned_index,
                                     max_aligned_recursion_level_block_size>>))
                  ELSE next_range_block_loop(search_start_index, data_len,
                           target_recursion_level, max_recursion_level_ - 1,
                           sub_block_sqrt, fn_filter)
             ELSE IF overflow_checks
                     /\ U64Overflows(next_aligned_index,
                                     max_aligned_recursion_level_block_size)
             THEN Overflow
             ELSE next_range_block_loop(
                      next_aligned_index + max_aligned_recursion_level_block_size,
                      data_len, target_recursion_level, max_recursion_level_,
                      sub_block_sqrt, fn_filter)

next_range_block(search_start_index, data_len, target_recursion_level, max_recursion_level_, sub_block_sqrt, fn_filter) ==
    IF ~(sub_block_sqrt > 1) THEN Panic
    ELSE next_range_block_loop(search_start_index, data_len, target_recursion_level,
                               max_recursion_level_, sub_block_sqrt, fn_filter)

\* A for loop over CompleteLargestRangeBlockIterator or RangeBlockIterator is
\* the IterSpec actions below; generate's loops are RangeBlocks further down.

\* Mutant: the block must end strictly before the limit.
next_complete_largest_range_block_short(index, limit_index, max_recursion_level_, sub_block_sqrt) ==
    IF ~(sub_block_sqrt > 1) THEN Panic
    ELSE LET fits == {i \in 0..max_recursion_level_ :
                         LET size == range_block_size(i, sub_block_sqrt)
                         IN index % size = 0 /\ index + size < limit_index}
         IN IF fits = {} THEN Returns(None)
            ELSE Returns(Some(<<index, range_block_size(SetMax(fits), sub_block_sqrt)>>))

\* Mutant: the levels are scanned from 0 up, so the smallest fit is taken.
next_complete_largest_range_block_lowest(index, limit_index, max_recursion_level_, sub_block_sqrt) ==
    IF ~(sub_block_sqrt > 1) THEN Panic
    ELSE LET fits == {i \in 0..max_recursion_level_ :
                         LET size == range_block_size(i, sub_block_sqrt)
                         IN index % size = 0 /\ index + size <= limit_index}
         IN IF fits = {} THEN Returns(None)
            ELSE Returns(Some(<<index, range_block_size(
                                 CHOOSE m \in fits : \A o \in fits : m <= o,
                                 sub_block_sqrt)>>))

\* Mutant: the filter on the alignment of index is left out.
next_complete_largest_range_block_unaligned(index, limit_index, max_recursion_level_, sub_block_sqrt) ==
    IF ~(sub_block_sqrt > 1) THEN Panic
    ELSE LET fits == {i \in 0..max_recursion_level_ :
                         index + range_block_size(i, sub_block_sqrt) <= limit_index}
         IN IF fits = {} THEN Returns(None)
            ELSE Returns(Some(<<index, range_block_size(SetMax(fits), sub_block_sqrt)>>))

\* The sizes that pass both filters, largest level first: the first is taken.
next_complete_largest_range_block(index, limit_index, max_recursion_level_, sub_block_sqrt) ==
    IF ~(sub_block_sqrt > 1) THEN Panic
    ELSE LET fits == {i \in 0..max_recursion_level_ :
                         LET size == range_block_size(i, sub_block_sqrt)
                         IN index % size = 0 /\ index + size <= limit_index}
         IN IF fits = {} THEN Returns(None)
            ELSE Returns(Some(<<index, range_block_size(SetMax(fits), sub_block_sqrt)>>))

---------------------------------------------------------------------------
(* The Cacheable aggregators. A buffer is a sequence of bytes; the byte at *)
(* the source's index i is data[i + 1].                                    *)

\* utilities::byte_color as the injected color_fn: the three masked and
\* shifted bit fields of the byte.
color_fn(byte) ==
    <<(byte \div 64) * 64, ((byte \div 8) % 8) * 32, (byte % 8) * 32>>

RECURSIVE SumBytes(_, _, _)
\* data[index..limit].iter().map(|&x| x as u64).sum()
\* (summed by halves, which keeps the evaluation shallow on long slices)
SumBytes(data, index, limit) ==
    IF index >= limit THEN 0
    ELSE IF index + 1 = limit THEN data[index + 1]
    ELSE LET mid == (index + limit) \div 2
         IN SumBytes(data, index, mid) + SumBytes(data, mid, limit)

\* Mutant: a range that passes the end of the buffer sums to 0.
block_sum_unclamped(data, index, count) ==
    IF index + count <= Len(data) THEN SumBytes(data, index, index + count) ELSE 0

block_sum(data, index, count) ==
    LET limit == U64Min(Len(data), index + count)
    IN IF U64Lt(index, Len(data)) THEN SumBytes(data, index, limit) ELSE 0

\* The slice data[index..limit] of block_sum and block_color_sum is taken when
\* index < len, and taking it panics when limit < index.
SliceFails(len, index, count) ==
    U64Lt(index, len) /\ U64Lt(U64Min(len, index + count), index)

\* A call of block_sum with any u64 arguments: index + count panics on
\* overflow in a build with overflow checks and wraps in one without.
block_sum_outcome(data, index, count) ==
    IF overflow_checks /\ U64Overflows(index, count) THEN Overflow
    ELSE IF SliceFails(Len(data), index, count) THEN SliceOrder
    ELSE Returns(block_sum(data, index, count))

RECURSIVE SumColors(_, _, _)
\* the for loop of block_color_sum over data[index..limit]
\* (summed by halves; each half is taken from a one-element set, which makes
\* it a value that is computed once)
SumColors(data, index, limit) ==
    IF index >= limit THEN <<0, 0, 0>>
    ELSE IF index + 1 = limit THEN color_fn(data[index + 1])
    ELSE LET mid == (index + limit) \div 2
         IN CHOOSE sum \in
                {<<head[1] + rest[1], head[2] + rest[2], head[3] + rest[3]>> :
                     head \in {SumColors(data, index, mid)},
                     rest \in {SumColors(data, mid, limit)}} : TRUE

block_color_sum(data, index, count) ==
    LET limit == U64Min(Len(data), index + count)
    IN IF U64Lt(index, Len(data)) THEN SumColors(data, index, limit) ELSE <<0, 0, 0>>

\* The second color_fn the application injects (semantic01_color_rgb): the
\* byte as a grey level.
semantic01_color_rgb(byte) == <<byte, byte, byte>>

RECURSIVE SumSemantic01(_, _, _)
\* data[index..limit].iter().map(color_fn) summed, for semantic01_color_rgb.
SumSemantic01(data, index, limit) ==
    IF index >= limit THEN <<0, 0, 0>>
    ELSE IF index + 1 = limit THEN semantic01_color_rgb(data[index + 1])
    ELSE LET mid == (index + limit) \div 2
         IN CHOOSE sum \in
                {<<head[1] + rest[1], head[2] + rest[2], head[3] + rest[3]>> :
                     head \in {SumSemantic01(data, index, mid)},
                     rest \in {SumSemantic01(data, mid, limit)}} : TRUE

\* block_color_sum of a RangeBlockColorSum made with semantic01_color_rgb.
block_semantic01_sum(data, index, count) ==
    LET limit == U64Min(Len(data), index + count)
    IN IF U64Lt(index, Len(data)) THEN SumSemantic01(data, index, limit) ELSE <<0, 0, 0>>

\* A call of block_color_sum with any u64 arguments.
block_color_sum_outcome(data, index, count) ==
    IF overflow_checks /\ U64Overflows(index, count) THEN Overflow
    ELSE IF SliceFails(Len(data), index, count) THEN SliceOrder
    ELSE Returns(block_color_sum(data, index, count))

RECURSIVE CountDiffs(_, _, _, _)
\* zip(..).filter(|(a, b)| a != b).count() over [index, limit)
CountDiffs(d0, d1, index, limit) ==
    IF index >= limit THEN 0
    ELSE IF index + 1 = limit THEN (IF d0[index + 1] # d1[index + 1] THEN 1 ELSE 0)
    ELSE LET mid == (index + limit) \div 2
         IN CountDiffs(d0, d1, index, mid) + CountDiffs(d0, d1, mid, limit)

\* Mutant: a block that passes the end of the shorter buffer is absent.
block_diff_inside(d0, d1, index, count) ==
    IF index + count <= Min(Len(d0), Len(d1))
    THEN Some(CountDiffs(d0, d1, index, index + count))
    ELSE None

block_diff(d0, d1, index, count) ==
    LET limit0 == Min(Len(d0), index + count)
        limit1 == Min(Len(d1), index + count)
        limit == Min(limit0, limit1)
        data_len == Min(Len(d0), Len(d1))
    IN IF index < data_len THEN Some(CountDiffs(d0, d1, index, limit)) ELSE None

\* A Cacheable implementor: its kind and the buffers it borrows.
RangeBlockSum(data) == [kind |-> "sum", data0 |-> data, data1 |-> <<>>]
RangeBlockColorSum(data) == [kind |-> "color", data0 |-> data, data1 |-> <<>>]
RangeBlockDiff(d0, d1) == [kind |-> "diff", data0 |-> d0, data1 |-> d1]
\* RangeBlockColorSum::new(data, semantic01_color_rgb)
RangeBlockSemantic01Sum(data) == [kind |-> "semantic01", data0 |-> data, data1 |-> <<>>]

\* Cacheable::value
value(cacheable, index, count) ==
    CASE cacheable.kind = "sum" -> block_sum(cacheable.data0, index, count)
      [] cacheable.kind = "color" -> block_color_sum(cacheable.data0, index, count)
      [] cacheable.kind = "semantic01" ->
             block_semantic01_sum(cacheable.data0, index, count)
      [] cacheable.kind = "diff" ->
             block_diff(cacheable.data0, cacheable.data1, index, count)

RECURSIVE SumSeq(_, _)
SumSeq(values, k) == IF k > Len(values) THEN 0 ELSE values[k] + SumSeq(values, k + 1)

RECURSIVE FoldColors(_, _, _)
FoldColors(values, k, acc) ==
    IF k > Len(values) THEN acc
    ELSE FoldColors(values, k + 1,
                    <<acc[1] + values[k][1], acc[2] + values[k][2],
                      acc[3] + values[k][3]>>)

RECURSIVE SumFlatten(_, _)
\* value.iter().flatten().copied().sum::<usize>()
SumFlatten(values, k) ==
    IF k > Len(values) THEN 0
    ELSE (IF values[k] = None THEN 0 ELSE values[k][1]) + SumFlatten(values, k + 1)

sum_value_from_sub_blocks(values) == SumSeq(values, 1)
color_value_from_sub_blocks(values) == FoldColors(values, 1, <<0, 0, 0>>)
\* .into() wraps the sum in Some, whatever the children were.
diff_value_from_sub_blocks(values) == Some(SumFlatten(values, 1))

\* Cacheable::value_from_sub_blocks
value_from_sub_blocks(cacheable, values) ==
    CASE cacheable.kind = "sum" -> sum_value_from_sub_blocks(values)
      [] cacheable.kind = "color" -> color_value_from_sub_blocks(values)
      [] cacheable.kind = "semantic01" -> color_value_from_sub_blocks(values)
      [] cacheable.kind = "diff" -> diff_value_from_sub_blocks(values)

---------------------------------------------------------------------------
(* RangeBlockCache. The HashMap is a function from the keys <<index,       *)
(* count>> it holds to their values.                                       *)

EmptyCache == <<>>

\* RangeBlockCache::get
get(values, index, count) ==
    IF <<index, count>> \in DOMAIN values
    THEN Some(values[<<index, count>>])
    ELSE None

\* HashMap::insert: the new value replaces an old one under the same key.
insert(values, key, v) ==
    [k \in (DOMAIN values) \cup {key} |-> IF k = key THEN v ELSE values[k]]

RECURSIVE RangeBlocks(_, _, _, _, _, _)
\* A for loop over RangeBlockIterator::new(..): next() until it returns None.
\* (The result of each search is taken from a one-element set, which makes
\* it a value that is computed once.)
RangeBlocks(search_start_index, data_len, target_recursion_level, max_recursion_level_, sub_block_sqrt, fn_filter) ==
    LET Rest(r) ==
            IF r.panic \/ r.value = None THEN <<>>
            ELSE LET index == r.value[1][1]
                     count == r.value[1][2]
                 IN <<r.value[1]>> \o
                    RangeBlocks(index + count, data_len, target_recursion_level,
                                max_recursion_level_, sub_block_sqrt, fn_filter)
    IN CHOOSE blocks \in
           {Rest(r) : r \in {next_range_block(search_start_index, data_len,
                                              target_recursion_level,
                                              max_recursion_level_,
                                              sub_block_sqrt, fn_filter)}} : TRUE

min_recursion_level == 2

\* The sub_accumulator of one block: each child from the map, or computed.
\* (The map and the children are taken from one-element sets, which makes
\* them values that are computed once.)
SubAccumulator(cacheable, values, sub_blocks) ==
    CHOOSE sub_accumulator \in
        {[k \in 1..Len(blocks) |->
             LET sub_index == blocks[k][1]
                 sub_count == blocks[k][2]
                 hit == get(map, sub_index, sub_count)
             IN IF hit # None THEN hit[1] ELSE value(cacheable, sub_index, sub_count)] :
            map \in {values}, blocks \in {sub_blocks}} : TRUE

RECURSIVE GenerateBlocks_from_zero(_, _, _, _, _, _)
\* Mutant: the children are searched from offset 0, not from the block's.
GenerateBlocks_from_zero(cacheable, values, blocks, k, i, sub_block_sqrt) ==
    IF k > Len(blocks) THEN values
    ELSE LET index == blocks[k][1]
             count == blocks[k][2]
             v == IF i <= min_recursion_level
                  THEN value(cacheable, index, count)
                  ELSE value_from_sub_blocks(cacheable,
                           SubAccumulator(cacheable, values,
                               RangeBlocks(0, count, i - 1, i - 1,
                                           sub_block_sqrt, {})))
         IN GenerateBlocks_from_zero(cacheable, insert(values, <<index, count>>, v),
                                     blocks, k + 1, i, sub_block_sqrt)

RECURSIVE GenerateBlocks(_, _, _, _, _, _)
\* The inner for loop of generate over the blocks of level i, from the k-th on.
GenerateBlocks(cacheable, values, blocks, k, i, sub_block_sqrt) ==
    IF k > Len(blocks) THEN values
    ELSE LET index == blocks[k][1]
             count == blocks[k][2]
             v == IF i <= min_recursion_level
                  THEN value(cacheable, index, count)
                  ELSE value_from_sub_blocks(cacheable,
                           SubAccumulator(cacheable, values,
                               RangeBlocks(index, index + count, i - 1, i - 1,
                                           sub_block_sqrt, {})))
         IN GenerateBlocks(cacheable, insert(values, <<index, count>>, v),
                           blocks, k + 1, i, sub_block_sqrt)

RECURSIVE GenerateLevels(_, _, _, _, _, _)
\* The outer for loop of generate: levels i..=max_recursion_level.
GenerateLevels(cacheable, values, i, max_recursion_level_, data_len, sub_block_sqrt) ==
    IF i > max_recursion_level_ THEN values
    ELSE GenerateLevels(cacheable,
             GenerateBlocks(cacheable, values,
                 RangeBlocks(0, data_len, i, i, sub_block_sqrt, {}),
                 1, i, sub_block_sqrt),
             i + 1, max_recursion_level_, data_len, sub_block_sqrt)

\* Mutant: the levels are generated from level 1 on.
generate_from_level_one(cacheable, data_len, sub_block_sqrt) ==
    GenerateLevels(cacheable, EmptyCache, min_recursion_level - 1,
                   max_recursion_level(data_len, sub_block_sqrt),
                   data_len, sub_block_sqrt)

\* RangeBlockCache::generate
generate(cacheable, data_len, sub_block_sqrt) ==
    GenerateLevels(cacheable, EmptyCache, min_recursion_level,
                   max_recursion_level(data_len, sub_block_sqrt),
                   data_len, sub_block_sqrt)

---------------------------------------------------------------------------
(* Inputs.                                                                 *)

\* Pattern 0 is the byte sequence 0, 1, 2, ..; pattern s > 0 differs from it
\* at the indices i with i % (s + 1) = 1.
Byte(seed, i) ==
    IF seed > 0 /\ i % (seed + 1) = 1
    THEN (i * 37 + 100 * seed) % 256
    ELSE i % 256

Buffer(len, seed) == [i \in 1..len |-> Byte(seed, i - 1)]

Buffers == {Buffer(len, seed) : len \in 0..MaxBufLen, seed \in 0..MaxSeed}

\* Data lengths at which the cast to f32 rounds: 2^24 is the first integer
\* whose successor has no f32.
F32Probes == {Pow(2, F32_MANTISSA_DIGITS), Pow(2, F32_MANTISSA_DIGITS) + 1}

Idle == [fn |-> "idle"]
Pending == [done |-> FALSE]
Done(v) == [done |-> TRUE, value |-> v]

fnIdle == args = Idle /\ ret = Pending
iterIdle ==
    /\ iter = [kind |-> "idle"]
    /\ iter0 = [kind |-> "idle"]
    /\ yielded = <<>>
    /\ exhausted = FALSE
cacheIdle ==
    /\ data0 = <<>>
    /\ data1 = <<>>
    /\ cache_sqrt = 0
    /\ generated = FALSE
    /\ sum_cache = EmptyCache
    /\ color_cache = EmptyCache
    /\ diff_cache = EmptyCache
\* RangeBorder::default(), nothing added and nothing extracted.
borderIdle ==
    /\ range_border = [next_edge_id |-> 0, edges |-> <<>>]
    /\ rects = <<>>
    /\ loops = Pending
\* No HexApp has been constructed.
appIdle == hex_app = [active_file |-> "idle"]
\* The inputs of Spec, IterSpec, CacheSpec, BorderSpec and AppSpec stay far below
\* u64::MAX: no sum overflows and the profile makes no difference there.
releaseBuild == overflow_checks = FALSE

---------------------------------------------------------------------------
(* Spec: one call of a pure function. Init draws the arguments, the action *)
(* of the function called applies it.                                      *)

MaxRecursionLevelCalls ==
    [fn : {"max_recursion_level"},
     data_len : (0..MaxDataLen) \cup F32Probes,
     sub_block_sqrt : 2..MaxSqrt]

CellOffsetCalls ==
    UNION {[fn : {"get_cell_offset"},
            index : 0..Min(MaxCellIndex, range_block_size(m, b) - 1),
            level : {m},
            sub_block_sqrt : {b}] :
           m \in 0..MaxCellLevel, b \in 2..MaxSqrt}

\* The aligned blocks of every level that start at or below MaxCellIndex.
CornersCalls ==
    UNION {[fn : {"range_block_corners"},
            index : {k * range_block_size(l, b) :
                        k \in 0..(MaxCellIndex \div range_block_size(l, b))},
            count : {range_block_size(l, b)},
            level : {l},
            sub_block_sqrt : {b}] :
           l \in 0..MaxCellLevel, b \in 2..MaxSqrt}

\* The aligned block number `block` of level `level` and its children. The
\* difference is taken between a buffer of pattern 0 and any buffer.
SubBlockCalls ==
    [fn : {"value_from_sub_blocks"}, kind : {"sum", "color"},
     data0 : Buffers, data1 : {<<>>},
     level : 1..MaxAggLevel, block : 0..MaxBlockIndex,
     sub_block_sqrt : 2..MaxIterSqrt]
    \cup
    [fn : {"value_from_sub_blocks"}, kind : {"diff"},
     data0 : {Buffer(len, 0) : len \in 0..MaxBufLen}, data1 : Buffers,
     level : 1..MaxAggLevel, block : 0..MaxBlockIndex,
     sub_block_sqrt : 2..MaxIterSqrt]

Init ==
    /\ \/ args \in MaxRecursionLevelCalls
       \/ args \in CellOffsetCalls
       \/ args \in CornersCalls
       \/ args \in SubBlockCalls
    /\ ret = Pending
    /\ iterIdle
    /\ cacheIdle
    /\ borderIdle
    /\ appIdle
    /\ releaseBuild

CallMaxRecursionLevel ==
    /\ args.fn = "max_recursion_level"
    /\ ~ret.done
    /\ ret' = Done(max_recursion_level(args.data_len, args.sub_block_sqrt))
    /\ UNCHANGED <<args, iterVars, cacheVars, borderVars, appVars, overflow_checks>>

CallGetCellOffset ==
    /\ args.fn = "get_cell_offset"
    /\ ~ret.done
    /\ ret' = Done(get_cell_offset(args.index, args.sub_block_sqrt))
    /\ UNCHANGED <<args, iterVars, cacheVars, borderVars, appVars, overflow_checks>>

CallRangeBlockCorners ==
    /\ args.fn = "range_block_corners"
    /\ ~ret.done
    /\ ret' = Done(range_block_corners(args.index, args.count, args.sub_block_sqrt))
    /\ UNCHANGED <<args, iterVars, cacheVars, borderVars, appVars, overflow_checks>>

ArgCacheable(a) == [kind |-> a.kind, data0 |-> a.data0, data1 |-> a.data1]
ArgCount(a) == range_block_size(a.level, a.sub_block_sqrt)
ArgIndex(a) == a.block * ArgCount(a)

\* The values of the block's children at the next-finer level, gathered as
\* generate gathers them, and combined.
CallValueFromSubBlocks ==
    /\ args.fn = "value_from_sub_blocks"
    /\ ~ret.done
    /\ LET sub_blocks == RangeBlocks(ArgIndex(args), ArgIndex(args) + ArgCount(args),
                                     args.level - 1, args.level - 1,
                                     args.sub_block_sqrt, {})
           sub_values == [k \in 1..Len(sub_blocks) |->
                             value(ArgCacheable(args), sub_blocks[k][1],
                                   sub_blocks[k][2])]
       IN ret' = Done([sub_blocks |-> sub_blocks,
                       combined |-> value_from_sub_blocks(ArgCacheable(args),
                                                          sub_values)])
    /\ UNCHANGED <<args, iterVars, cacheVars, borderVars, appVars, overflow_checks>>

Next ==
    \/ CallMaxRecursionLevel
    \/ CallGetCellOffset
    \/ CallRangeBlockCorners
    \/ CallValueFromSubBlocks

Spec == Init /\ [][Next]_vars

---------------------------------------------------------------------------
(* IterSpec: an iterator is constructed (Init draws the arguments of new)  *)
(* and next() is called until it returns None.                             *)

\* The aligned blocks of levels up to MaxIterLevel that start below MaxIterLen.
AlignedBlocks(sub_block_sqrt) ==
    {<<k * range_block_size(l, sub_block_sqrt), range_block_size(l, sub_block_sqrt)>> :
        k \in 0..MaxIterLen, l \in 0..MaxIterLevel}

\* Widths of the windows of offsets a visibility predicate looks at, and the
\* distance between the starts of two windows drawn.
WindowWidths == {1, 5}
WindowStep == 3

\* Predicates that are true for the blocks that meet a window [lo, lo + width)
\* of offsets and false for the rest, as is_visible is true for the blocks
\* whose square meets the clip rectangle.
WindowFilters(sub_block_sqrt) ==
    {{a \in AlignedBlocks(sub_block_sqrt) : BlockEnd(a) <= lo \/ a[1] >= lo + width} :
        lo \in {k * WindowStep : k \in 0..(MaxIterLen \div WindowStep)},
        width \in WindowWidths}

\* The predicates drawn: always true, false for exactly one aligned block,
\* false for every block of one level, false for one aligned block and every
\* block within it, or true for the blocks that meet a window.
Filters(sub_block_sqrt) ==
    {{}} \cup {{b} : b \in {a \in AlignedBlocks(sub_block_sqrt) : a[1] < MaxIterLen}}
         \cup {{a \in AlignedBlocks(sub_block_sqrt) :
                    a[2] = range_block_size(l, sub_block_sqrt)} : l \in 0..MaxIterLevel}
         \cup {{a \in AlignedBlocks(sub_block_sqrt) : Within(a, b)} :
                  b \in {a \in AlignedBlocks(sub_block_sqrt) : a[1] < MaxIterLen}}
         \cup WindowFilters(sub_block_sqrt)

RangeBlockIteratorNew ==
    UNION {[kind : {"RangeBlockIterator"},
            search_start_index : 0..MaxIterLen,
            data_len : 0..MaxIterLen,
            target_recursion_level : {t},
            max_recursion_level : t..MaxIterLevel,
            sub_block_sqrt : {b},
            fn_filter : Filters(b)] :
           t \in 0..MaxIterLevel, b \in 2..MaxIterSqrt}

CompleteLargestRangeBlockIteratorNew ==
    [kind : {"CompleteLargestRangeBlockIterator"},
     search_start_index : 0..MaxIterLen,
     search_end_index : 0..MaxIterLen,
     max_recursion_level : 0..MaxIterLevel,
     sub_block_sqrt : 2..MaxIterSqrt]

IterInit ==
    /\ \/ iter \in RangeBlockIteratorNew
       \/ iter \in CompleteLargestRangeBlockIteratorNew
    /\ iter0 = iter
    /\ yielded = <<>>
    /\ exhausted = FALSE
    /\ fnIdle
    /\ cacheIdle
    /\ borderIdle
    /\ appIdle
    /\ releaseBuild

\* The cursor is set to the start of the block returned, not past it.
IteratorStep_stays(r) ==
    /\ ~r.panic
    /\ IF r.value # None
       THEN /\ iter' = [iter EXCEPT !.search_start_index = r.value[1][1]]
            /\ yielded' = Append(yielded, r.value[1])
            /\ UNCHANGED exhausted
       ELSE /\ exhausted' = TRUE
            /\ UNCHANGED <<iter, yielded>>
    /\ UNCHANGED <<iter0, fnVars, cacheVars, borderVars, appVars, overflow_checks>>

\* What next() does with the search's result: Some advances the cursor past
\* the block and yields it, None ends the iteration. A panic aborts.
IteratorStep(r) ==
    /\ ~r.panic
    /\ IF r.value # None
       THEN /\ iter' = [iter EXCEPT !.search_start_index =
                                        r.value[1][1] + r.value[1][2]]
            /\ yielded' = Append(yielded, r.value[1])
            /\ UNCHANGED exhausted
       ELSE /\ exhausted' = TRUE
            /\ UNCHANGED <<iter, yielded>>
    /\ UNCHANGED <<iter0, fnVars, cacheVars, borderVars, appVars, overflow_checks>>

RangeBlockIteratorNext ==
    /\ iter.kind = "RangeBlockIterator"
    /\ ~exhausted
    /\ IteratorStep(next_range_block(iter.search_start_index, iter.data_len,
                                     iter.target_recursion_level,
                                     iter.max_recursion_level,
                                     iter.sub_block_sqrt, iter.fn_filter))

CompleteLargestRangeBlockIteratorNext ==
    /\ iter.kind = "CompleteLargestRangeBlockIterator"
    /\ ~exhausted
    /\ IteratorStep(next_complete_largest_range_block(
                        iter.search_start_index, iter.search_end_index,
                        iter.max_recursion_level, iter.sub_block_sqrt))

IterNext ==
    \/ RangeBlockIteratorNext
    \/ CompleteLargestRangeBlockIteratorNext

IterSpec == IterInit /\ [][IterNext]_vars

---------------------------------------------------------------------------
(* Properties of the iterators (IterSpec).                                 *)

CeilDiv(a, b) == (a + b - 1) \div b

IsPrefix(p, q) == Len(p) <= Len(q) /\ \A k \in 1..Len(p) : p[k] = q[k]

IsUnfilteredFromZero ==
    /\ iter0.kind = "RangeBlockIterator"
    /\ iter0.search_start_index = 0
    /\ iter0.fn_filter = {}
    /\ iter0.data_len >= 1

\* C1: started at 0 with an always-true predicate, a RangeBlockIterator over
\* N >= 1 bytes at level L <= ceiling yields the blocks (k*S, S), S = B^(2L),
\* for k = 0 .. ceil(N/S)-1 in increasing order and nothing else; only the last
\* block may pass N.
C1_UnfilteredTiling ==
    IsUnfilteredFromZero =>
        LET S == range_block_size(iter0.target_recursion_level, iter0.sub_block_sqrt)
            expected == [k \in 1..CeilDiv(iter0.data_len, S) |-> <<(k - 1) * S, S>>]
        IN /\ IsPrefix(yielded, expected)
           /\ exhausted => yielded = expected
           /\ \A k \in 1..Len(yielded) :
                  BlockEnd(yielded[k]) > iter0.data_len => k = Len(expected)

\* A finished unfiltered iteration of several blocks below the ceiling whose
\* last block passes the end of the data.
C1_Witness ==
    /\ IsUnfilteredFromZero
    /\ exhausted
    /\ Len(yielded) >= 3
    /\ iter0.target_recursion_level < iter0.max_recursion_level
    /\ BlockEnd(yielded[Len(yielded)]) > iter0.data_len

IsCompleteLargest ==
    /\ iter0.kind = "CompleteLargestRangeBlockIterator"
    /\ iter0.search_start_index <= iter0.search_end_index

RECURSIVE SumCounts(_, _)
SumCounts(blocks, k) ==
    IF k > Len(blocks) THEN 0 ELSE blocks[k][2] + SumCounts(blocks, k + 1)

\* C2: the blocks CompleteLargestRangeBlockIterator(start, limit, ..) yields
\* are contiguous and do not overlap: the first begins at start, each next one
\* where the previous ended, the last ends at limit, and the lengths sum to
\* limit - start.
C2_ContiguousTiling ==
    IsCompleteLargest =>
        /\ \A k \in 1..Len(yielded) :
              /\ yielded[k][2] >= 1
              /\ yielded[k][1] = IF k = 1 THEN iter0.search_start_index
                                 ELSE BlockEnd(yielded[k - 1])
              /\ BlockEnd(yielded[k]) <= iter0.search_end_index
        /\ exhausted =>
              /\ IF yielded = <<>>
                 THEN iter0.search_start_index = iter0.search_end_index
                 ELSE BlockEnd(yielded[Len(yielded)]) = iter0.search_end_index
              /\ SumCounts(yielded, 1) =
                     iter0.search_end_index - iter0.search_start_index

\* A finished tiling of at least three blocks, not all of one size.
C2_Witness ==
    /\ IsCompleteLargest
    /\ exhausted
    /\ Len(yielded) >= 3
    /\ \E j, k \in 1..Len(yielded) : yielded[j][2] < yielded[k][2]

SetMin(S) == CHOOSE m \in S : \A o \in S : m <= o

RECURSIVE MinTiles(_, _, _, _)
\* The least number of aligned blocks (length B^(2L), L <= ceiling, offset a
\* multiple of the length) that tile [p, limit), by trying every block at p.
MinTiles(p, limit, ceiling, sub_block_sqrt) ==
    IF p >= limit THEN 0
    ELSE LET sizes == {size \in {range_block_size(l, sub_block_sqrt) : l \in 0..ceiling} :
                          p % size = 0 /\ p + size <= limit}
         IN 1 + SetMin({MinTiles(p + size, limit, ceiling, sub_block_sqrt) :
                           size \in sizes})

\* C3: no tiling of [start, limit) by aligned blocks of levels up to the
\* ceiling has fewer blocks than the one the iterator yields.
C3_FewestBlocks ==
    (IsCompleteLargest /\ exhausted) =>
        Len(yielded) = MinTiles(iter0.search_start_index, iter0.search_end_index,
                                iter0.max_recursion_level, iter0.sub_block_sqrt)

\* A finished tiling that needed fewer blocks than bytes, of mixed sizes.
C3_Witness ==
    /\ IsCompleteLargest
    /\ exhausted
    /\ Len(yielded) >= 4
    /\ Len(yielded) < iter0.search_end_index - iter0.search_start_index
    /\ \E k \in 1..Len(yielded) : yielded[k][2] = 1

---------------------------------------------------------------------------
(* Properties of the pure functions (Spec).                                *)

Called(fn) == args.fn = fn /\ ret.done

\* C4: for fixed B and level M, get_cell_offset is injective on
\* [0, B^(2M)): no other offset of the range (up to MaxCellIndex) has the
\* cell of this one.
C4_CellOffsetInjective ==
    Called("get_cell_offset") =>
        \A other \in 0..Min(MaxCellIndex,
                            range_block_size(args.level, args.sub_block_sqrt) - 1) :
            other # args.index =>
                get_cell_offset(other, args.sub_block_sqrt) # ret.value

\* An offset of two base-B^2 digits, mapped past the first sub-block row.
C4_Witness ==
    /\ Called("get_cell_offset")
    /\ args.level = 2
    /\ args.index >= args.sub_block_sqrt * args.sub_block_sqrt
    /\ ret.value.y >= args.sub_block_sqrt

RECURSIVE SmallestLevelFrom(_, _, _)
SmallestLevelFrom(n, sub_block_sqrt, level) ==
    IF range_block_size(level, sub_block_sqrt) >= n THEN level
    ELSE SmallestLevelFrom(n, sub_block_sqrt, level + 1)

\* The smallest L with B^(2L) >= n.
SmallestLevel(n, sub_block_sqrt) == SmallestLevelFrom(n, sub_block_sqrt, 0)

\* C5: max_recursion_level(N, B) is the smallest L with B^(2L) >= N, for
\* every N: 0 for N = 0 and 1, k for N = B^(2k), k + 1 for N = B^(2k) + 1.
C5_SmallestLevel ==
    Called("max_recursion_level") =>
        ret.value = SmallestLevel(args.data_len, args.sub_block_sqrt)

\* The 256 sequential bytes of the scenario, and the branch factor of the app.
ScenarioLen == 256
SUB_BLOCK_SQRT == 4

IsScenarioCall ==
    /\ Called("max_recursion_level")
    /\ args.data_len = ScenarioLen
    /\ args.sub_block_sqrt = SUB_BLOCK_SQRT

\* C6 as stated: for 256 bytes and branch factor 4, max_recursion_level
\* returns 4.
C6_ReturnsFour == IsScenarioCall => ret.value = 4

\* C6 as amended: for 256 bytes and branch factor 4, max_recursion_level
\* returns 2, the level whose block size 4^(2*2) = 256 holds the buffer.
C6_ReturnsTwo ==
    IsScenarioCall =>
        /\ ret.value = 2
        /\ range_block_size(ret.value, SUB_BLOCK_SQRT) = ScenarioLen

C6_Witness == IsScenarioCall /\ ret.value = 2

\* C7: for the byte-sum and colour-sum aggregators, value_from_sub_blocks of
\* the B^2 children of an aligned block (offset, B^(2L)), L >= 1, equals
\* value(offset, B^(2L)), also for blocks partly or wholly past the buffer.
C7_SumCombineIsDirect ==
    (Called("value_from_sub_blocks") /\ args.kind \in {"sum", "color"}) =>
        /\ Len(ret.value.sub_blocks) = args.sub_block_sqrt * args.sub_block_sqrt
        /\ ret.value.combined =
               value(ArgCacheable(args), ArgIndex(args), ArgCount(args))

\* A level-2 block that the buffer ends inside, with a non-zero sum.
C7_Witness ==
    /\ Called("value_from_sub_blocks")
    /\ args.kind = "sum"
    /\ args.level = 2
    /\ ArgIndex(args) < Len(args.data0)
    /\ Len(args.data0) < ArgIndex(args) + ArgCount(args)
    /\ ret.value.combined > 0

\* C8: for the difference-count aggregator, value_from_sub_blocks of the B^2
\* children of an aligned block equals value(offset, B^(2L)), also for a
\* block wholly past the end of the shorter buffer, whose value is absent.
C8_DiffCombineIsDirect ==
    (Called("value_from_sub_blocks") /\ args.kind = "diff") =>
        ret.value.combined =
            value(ArgCacheable(args), ArgIndex(args), ArgCount(args))

---------------------------------------------------------------------------
(* CacheSpec: Init draws two buffers and a branch factor; Generate builds  *)
(* the caches from them as HexApp::update does when a file is loaded: the  *)
(* sum and colour caches of the first buffer over its length, the          *)
(* difference cache of the pair over the longer length.                    *)

CacheBuffers == Buffers \cup {Buffer(ScenarioLen, seed) : seed \in 0..MaxSeed}

CacheInit ==
    /\ data0 \in CacheBuffers
    /\ data1 \in CacheBuffers
    /\ cache_sqrt \in 2..MaxSqrt
    /\ generated = FALSE
    /\ sum_cache = EmptyCache
    /\ color_cache = EmptyCache
    /\ diff_cache = EmptyCache
    /\ fnIdle
    /\ iterIdle
    /\ borderIdle
    /\ appIdle
    /\ releaseBuild

Generate ==
    /\ ~generated
    /\ generated' = TRUE
    /\ sum_cache' = generate(RangeBlockSum(data0), Len(data0), cache_sqrt)
    /\ color_cache' = generate(RangeBlockColorSum(data0), Len(data0), cache_sqrt)
    /\ diff_cache' = generate(RangeBlockDiff(data0, data1),
                              Max(Len(data0), Len(data1)), cache_sqrt)
    /\ UNCHANGED <<data0, data1, cache_sqrt, fnVars, iterVars, borderVars,
                   appVars, overflow_checks>>

CacheNext == Generate

CacheSpec == CacheInit /\ [][CacheNext]_vars

---------------------------------------------------------------------------
(* Properties of the caches (CacheSpec).                                   *)

RECURSIVE SumOver(_, _)
\* The sum of the entries of `values` under the keys of S.
SumOver(values, S) ==
    IF S = {} THEN 0
    ELSE LET key == CHOOSE key \in S : TRUE
         IN values[key] + SumOver(values, S \ {key})

KeysOfLevel(values, i, sub_block_sqrt) ==
    {key \in DOMAIN values : key[2] = range_block_size(i, sub_block_sqrt)}

\* The sum of the bytes 0..255.
ScenarioSum == (255 * 256) \div 2

\* C9: every entry (offset, length) of a cache generated from the byte-sum
\* or the colour-sum aggregator equals the aggregator's value(offset, length);
\* so at every cached level the entries add up to the sum of the whole
\* buffer, which is 32640 for the bytes 0..255.
C9_SumCacheIsDirect ==
    generated =>
        /\ \A key \in DOMAIN sum_cache :
               sum_cache[key] = block_sum(data0, key[1], key[2])
        /\ \A key \in DOMAIN color_cache :
               color_cache[key] = block_color_sum(data0, key[1], key[2])
        /\ \A i \in min_recursion_level..max_recursion_level(Len(data0), cache_sqrt) :
               /\ KeysOfLevel(sum_cache, i, cache_sqrt) # {}
               /\ SumOver(sum_cache, KeysOfLevel(sum_cache, i, cache_sqrt)) =
                      block_sum(data0, 0, Len(data0))
               /\ data0 = Buffer(ScenarioLen, 0) =>
                      SumOver(sum_cache, KeysOfLevel(sum_cache, i, cache_sqrt)) =
                          ScenarioSum

\* The caches of the bytes 0..255 with three cached levels, the second block
\* of level 3 combined from cached children.
C9_Witness ==
    /\ generated
    /\ data0 = Buffer(ScenarioLen, 0)
    /\ max_recursion_level(Len(data0), cache_sqrt) = 4
    /\ <<64, 64>> \in DOMAIN sum_cache
    /\ <<0, 256>> \in DOMAIN color_cache
    /\ sum_cache[<<0, 256>>] = ScenarioSum

\* C10: every entry of the difference cache generated over max(len0, len1)
\* holds RangeBlockDiff.value(offset, length), so a cache hit never differs
\* from the value computed on a miss.
C10_DiffCacheIsDirect ==
    generated =>
        \A key \in DOMAIN diff_cache :
            diff_cache[key] = block_diff(data0, data1, key[1], key[2])

\* The aligned blocks of the levels from..to that start below data_len.
BlocksOfLevels(from, to, data_len, sub_block_sqrt) ==
    UNION {{<<k * range_block_size(l, sub_block_sqrt), range_block_size(l, sub_block_sqrt)>> :
               k \in 0..(CeilDiv(data_len, range_block_size(l, sub_block_sqrt)) - 1)} :
           l \in from..to}

\* The keys of a cache generated for data_len bytes are exactly the aligned
\* blocks of the levels 2..max_recursion_level that start below data_len, and
\* get answers for those and for no block of level 0 or 1.
HasExactlyTheCachedLevels(values, data_len, sub_block_sqrt) ==
    LET top == max_recursion_level(data_len, sub_block_sqrt)
        cached == BlocksOfLevels(2, top, data_len, sub_block_sqrt)
        below == BlocksOfLevels(0, 1, data_len, sub_block_sqrt)
    IN /\ DOMAIN values = cached
       /\ \A key \in cached : get(values, key[1], key[2]) # None
       /\ \A key \in below : get(values, key[1], key[2]) = None
       /\ top < 2 => values = EmptyCache

\* C11: after generate(data_len, B), get(offset, length) returns an entry
\* exactly when length = B^(2L) for a level L with 2 <= L <=
\* max_recursion_level(data_len, B), offset is a multiple of length and
\* offset < data_len; there is no entry of level 0 or 1, and the cache is
\* empty when the maximum level is below 2.
C11_CachedLevels ==
    generated =>
        /\ HasExactlyTheCachedLevels(sum_cache, Len(data0), cache_sqrt)
        /\ HasExactlyTheCachedLevels(color_cache, Len(data0), cache_sqrt)
        /\ HasExactlyTheCachedLevels(diff_cache, Max(Len(data0), Len(data1)),
                                     cache_sqrt)

\* A buffer whose cache has two blocks of level 2 and one of level 3, and
\* whose first block of level 1 is not cached.
C11_Witness ==
    /\ generated
    /\ Len(data0) > range_block_size(2, cache_sqrt)
    /\ <<range_block_size(2, cache_sqrt), range_block_size(2, cache_sqrt)>>
           \in DOMAIN sum_cache
    /\ <<0, range_block_size(3, cache_sqrt)>> \in DOMAIN sum_cache
    /\ get(sum_cache, 0, range_block_size(1, cache_sqrt)) = None

---------------------------------------------------------------------------
(* CallSpec: one call of a public function of range_blocks.rs. Init draws  *)
(* the arguments from all of u64, not only from what the application       *)
(* passes: branch factors 0 and 1, a target level above the ceiling,       *)
(* values next to u64::MAX, and both build profiles for those.             *)

NearMax == {0 - j : j \in 1..MaxNearMax}
U64Draws == (0..MaxCallIndex) \cup NearMax

BlockSizes ==
    {range_block_size(l, b) : l \in 0..MaxCallLevel, b \in 2..MaxIterSqrt}
SmallCounts == (0..MaxSmallCount) \cup BlockSizes

\* The offset at which the two buffers of the difference scenario differ.
ScenarioOffset == 10

\* The buffer with the byte at `offset` changed.
DiffersAt(data, offset) ==
    [i \in 1..Len(data) |-> IF i = offset + 1 THEN (data[i] + 1) % 256 ELSE data[i]]

BlockSumCalls ==
    [fn : {"block_sum", "block_color_sum"}, data : Buffers,
     index : U64Draws, count : SmallCounts \cup NearMax]

BlockDiffCalls ==
    [fn : {"block_diff"},
     data0 : {Buffer(len, 0) : len \in 0..MaxBufLen},
     data1 : Buffers \cup {DiffersAt(Buffer(len, 0), ScenarioOffset) :
                               len \in (ScenarioOffset + 1)..MaxBufLen},
     index : 0..(MaxBufLen + 1), count : SmallCounts]

\* The aligned blocks a predicate of CallSpec may reject.
CallBlocks(sub_block_sqrt) ==
    BlocksOfLevels(0, MaxCallLevel, MaxCallIndex + 1, sub_block_sqrt)

\* The predicates that answer false for the sub-blocks of one block and for
\* one block of that block's level, true for the rest.
SubBlockFilters(sub_block_sqrt) ==
    UNION {{{b \in CallBlocks(sub_block_sqrt) :
                \/ b[2] = range_block_size(l - 1, sub_block_sqrt) /\ Within(b, p)
                \/ b = q} :
              p \in BlocksOfLevels(l, l, MaxCallIndex + 1, sub_block_sqrt),
              q \in BlocksOfLevels(l, l, MaxCallIndex + 1, sub_block_sqrt)} :
           l \in 1..MaxCallLevel}

\* The predicates drawn: always true; false for one block; false for every
\* block of one level; false for every block; false for the sub-blocks of
\* one block and one more block.
CallFilters(sub_block_sqrt) ==
    IF sub_block_sqrt <= 1 THEN {{}}
    ELSE {{}} \cup {{b} : b \in CallBlocks(sub_block_sqrt)}
         \cup {{b \in CallBlocks(sub_block_sqrt) :
                    b[2] = range_block_size(l, sub_block_sqrt)} : l \in 0..MaxCallLevel}
         \cup {CallBlocks(sub_block_sqrt)}
         \cup SubBlockFilters(sub_block_sqrt)

NextRangeBlockCalls ==
    UNION {[fn : {"next_range_block"},
            search_start_index : U64Draws,
            data_len : U64Draws,
            target_recursion_level : 0..MaxCallLevel,
            max_recursion_level : 0..MaxCallLevel,
            sub_block_sqrt : {b},
            fn_filter : CallFilters(b)] :
           b \in 0..MaxIterSqrt}

NextCompleteLargestRangeBlockCalls ==
    [fn : {"next_complete_largest_range_block"},
     index : 0..MaxCallIndex,
     limit_index : (0..MaxCallIndex) \cup {Pow(2, 2 * MaxCallLevel),
                                           Pow(2, 2 * MaxCallLevel) + 1},
     max_recursion_level : 0..MaxCallLevel,
     sub_block_sqrt : 0..MaxIterSqrt]

RangeBlockSizeCalls ==
    [fn : {"range_block_size"}, recursion_level : 0..MaxCallLevel,
     sub_block_sqrt : 0..MaxSqrt]

GetCellOffsetCalls ==
    [fn : {"get_cell_offset"}, index : 0..MaxCallIndex, sub_block_sqrt : 0..MaxSqrt]

RangeBlockCornersCalls ==
    [fn : {"range_block_corners"}, index : 0..MaxCallIndex,
     count : 1..MaxSmallCount, sub_block_sqrt : 0..MaxSqrt]

\* The calls with an argument that can take a sum past u64::MAX are drawn
\* under both build profiles.
CallInit ==
    /\ \/ /\ args \in BlockSumCalls \cup NextRangeBlockCalls
          /\ overflow_checks \in BOOLEAN
       \/ /\ args \in BlockDiffCalls \cup NextCompleteLargestRangeBlockCalls
                       \cup RangeBlockSizeCalls \cup GetCellOffsetCalls
                       \cup RangeBlockCornersCalls
          /\ releaseBuild
    /\ ret = Pending
    /\ iterIdle
    /\ cacheIdle
    /\ borderIdle
    /\ appIdle

\* The call returns `outcome`.
Call(outcome) ==
    /\ ~ret.done
    /\ ret' = Done(outcome)
    /\ UNCHANGED <<args, iterVars, cacheVars, borderVars, appVars, overflow_checks>>

TryBlockSum ==
    /\ args.fn = "block_sum"
    /\ Call(block_sum_outcome(args.data, args.index, args.count))

TryBlockColorSum ==
    /\ args.fn = "block_color_sum"
    /\ Call(block_color_sum_outcome(args.data, args.index, args.count))

TryBlockDiff ==
    /\ args.fn = "block_diff"
    /\ Call(Returns(block_diff(args.data0, args.data1, args.index, args.count)))

TryNextRangeBlock ==
    /\ args.fn = "next_range_block"
    /\ Call(next_range_block(args.search_start_index, args.data_len,
                             args.target_recursion_level, args.max_recursion_level,
                             args.sub_block_sqrt, args.fn_filter))

TryNextCompleteLargestRangeBlock ==
    /\ args.fn = "next_complete_largest_range_block"
    /\ Call(next_complete_largest_range_block(args.index, args.limit_index,
                                              args.max_recursion_level,
                                              args.sub_block_sqrt))

TryRangeBlockSize ==
    /\ args.fn = "range_block_size"
    /\ Call(Returns(range_block_size(args.recursion_level, args.sub_block_sqrt)))

TryGetCellOffset ==
    /\ args.fn = "get_cell_offset"
    /\ Call(get_cell_offset_outcome(args.index, args.sub_block_sqrt))

TryRangeBlockCorners ==
    /\ args.fn = "range_block_corners"
    /\ Call(range_block_corners_outcome(args.index, args.count, args.sub_block_sqrt))

CallNext ==
    \/ TryBlockSum
    \/ TryBlockColorSum
    \/ TryBlockDiff
    \/ TryNextRangeBlock
    \/ TryNextCompleteLargestRangeBlock
    \/ TryRangeBlockSize
    \/ TryGetCellOffset
    \/ TryRangeBlockCorners

CallSpec == CallInit /\ [][CallNext]_vars

---------------------------------------------------------------------------
(* Properties of the calls (CallSpec).                                     *)

\* The positions of [index, min(index + count, len0, len1)) at which the
\* buffers differ.
DiffPositions(d0, d1, index, count) ==
    {i \in index..(Min(index + count, Min(Len(d0), Len(d1))) - 1) :
        d0[i + 1] # d1[i + 1]}

\* The two buffers are equal except for the byte at ScenarioOffset.
IsDiffScenario ==
    /\ args.fn = "block_diff"
    /\ Len(args.data0) > ScenarioOffset
    /\ args.data1 = DiffersAt(args.data0, ScenarioOffset)

C13_BlockSumClamps ==
    Called("block_sum") \/ Called("block_color_sum") =>
        LET len == Len(args.data)
            limit == IF U64Overflows(args.index, args.count) THEN len
                     ELSE U64Min(len, args.index + args.count)
            zero == IF args.fn = "block_sum" THEN 0 ELSE <<0, 0, 0>>
        IN /\ ~ret.value.panic
           /\ ret.value.value =
                  IF ~U64Lt(args.index, len) THEN zero
                  ELSE IF args.fn = "block_sum"
                  THEN SumBytes(args.data, args.index, limit)
                  ELSE SumColors(args.data, args.index, limit)

\* C19: next_range_block and next_complete_largest_range_block abort when the
\* branch factor is <= 1, next_range_block aborts when the target level is
\* above the ceiling, and with valid arguments no assert! or expect of
\* next_range_block fails, for any search start, data length and predicate.
C19_AbortsOnInvalidOnly ==
    /\ Called("next_range_block") =>
           IF \/ args.sub_block_sqrt <= 1
              \/ args.target_recursion_level > args.max_recursion_level
           THEN ret.value.panic
           ELSE ret.value # Panic
    /\ Called("next_complete_largest_range_block") /\ args.sub_block_sqrt <= 1 =>
           ret.value.panic

\* C20: get_cell_offset, range_block_corners and range_block_size called with
\* branch factor 0 or 1 abort rather than return a value or run forever.
C20_MapperRejectsSmallSqrt ==
    /\ args.fn \in {"get_cell_offset", "range_block_corners", "range_block_size"}
    /\ ret.done
    /\ args.sub_block_sqrt <= 1
    => ret.value.panic

---------------------------------------------------------------------------
(* The boundary extraction (src/range_border.rs).                          *)

Edge(id, next, start, end) == [id |-> id, next |-> next, start |-> start, end |-> end]

\* The new edge is pushed after the loop even when it is null.
RECURSIVE add_edge_loop_keeps_null(_, _, _, _)
add_edge_loop_keeps_null(edges, k, new, next_edges) ==
    IF k > Len(edges)
    THEN Append(next_edges, new)
    ELSE LET edge == edges[k] IN
         IF /\ edge.end = new.start
            /\ (edge.start.x = new.end.x \/ edge.start.y = new.end.y)
         THEN add_edge_loop_keeps_null(edges, k + 1,
                            [new EXCEPT !.start = edge.start, !.id = edge.id],
                            next_edges)
         ELSE IF /\ new.end = edge.start
                 /\ (new.start.x = edge.end.x \/ new.start.y = edge.end.y)
         THEN add_edge_loop_keeps_null(edges, k + 1,
                            [new EXCEPT !.end = edge.end, !.next = edge.next],
                            next_edges)
         ELSE add_edge_loop_keeps_null(edges, k + 1, new, Append(next_edges, edge))

\* An edge that ends where the new edge starts is merged with it whether
\* or not the two are collinear.
RECURSIVE add_edge_loop_any_direction(_, _, _, _)
add_edge_loop_any_direction(edges, k, new, next_edges) ==
    IF k > Len(edges)
    THEN IF new.start # new.end THEN Append(next_edges, new) ELSE next_edges
    ELSE LET edge == edges[k] IN
         IF edge.end = new.start
         THEN add_edge_loop_any_direction(edges, k + 1,
                            [new EXCEPT !.start = edge.start, !.id = edge.id],
                            next_edges)
         ELSE IF /\ new.end = edge.start
                 /\ (new.start.x = edge.end.x \/ new.start.y = edge.end.y)
         THEN add_edge_loop_any_direction(edges, k + 1,
                            [new EXCEPT !.end = edge.end, !.next = edge.next],
                            next_edges)
         ELSE add_edge_loop_any_direction(edges, k + 1, new, Append(next_edges, edge))

\* The for loop of add_edge from the k-th existing edge on: new is the edge
\* being added (its id, next, start and end are reassigned by the merges),
\* next_edges the edges kept so far. After the loop the new edge is pushed
\* unless it is null.
RECURSIVE add_edge_loop(_, _, _, _)
add_edge_loop(edges, k, new, next_edges) ==
    IF k > Len(edges)
    THEN IF new.start # new.end THEN Append(next_edges, new) ELSE next_edges
    ELSE LET edge == edges[k] IN
         IF /\ edge.end = new.start
            /\ (edge.start.x = new.end.x \/ edge.start.y = new.end.y)
         THEN add_edge_loop(edges, k + 1,
                            [new EXCEPT !.start = edge.start, !.id = edge.id],
                            next_edges)
         ELSE IF /\ new.end = edge.start
                 /\ (new.start.x = edge.end.x \/ new.start.y = edge.end.y)
         THEN add_edge_loop(edges, k + 1,
                            [new EXCEPT !.end = edge.end, !.next = edge.next],
                            next_edges)
         ELSE add_edge_loop(edges, k + 1, new, Append(next_edges, edge))

\* add_edge: the new value of self.edges. Its assert (the edge is horizontal
\* or vertical) holds for the four calls of add_rect.
add_edge(edges, id, next, start, end) == add_edge_loop(edges, 1, Edge(id, next, start, end), <<>>)

\* The last edge of a rectangle is chained to the first edge of the next one.
add_rect_chained(self, top_left, bottom_right) ==
    LET top_right == CellCoords(bottom_right.x, top_left.y)
        bottom_left == CellCoords(top_left.x, bottom_right.y)
        id == self.next_edge_id
        e1 == add_edge(self.edges, id, id + 1, top_left, top_right)
        e2 == add_edge(e1, id + 1, id + 2, top_right, bottom_right)
        e3 == add_edge(e2, id + 2, id + 3, bottom_right, bottom_left)
        e4 == add_edge(e3, id + 3, id + 4, bottom_left, top_left)
    IN [next_edge_id |-> id + 4, edges |-> e4]

\* Mutant: next_edge_id is left as it was.
add_rect_same_ids(self, top_left, bottom_right) ==
    LET top_right == CellCoords(bottom_right.x, top_left.y)
        bottom_left == CellCoords(top_left.x, bottom_right.y)
        id == self.next_edge_id
        e1 == add_edge(self.edges, id, id + 1, top_left, top_right)
        e2 == add_edge(e1, id + 1, id + 2, top_right, bottom_right)
        e3 == add_edge(e2, id + 2, id + 3, bottom_right, bottom_left)
        e4 == add_edge(e3, id + 3, id, bottom_left, top_left)
    IN [next_edge_id |-> id, edges |-> e4]

\* add_rect: the new value of self.
add_rect(self, top_left, bottom_right) ==
    LET top_right == CellCoords(bottom_right.x, top_left.y)
        bottom_left == CellCoords(top_left.x, bottom_right.y)
        id == self.next_edge_id
        e1 == add_edge(self.edges, id, id + 1, top_left, top_right)
        e2 == add_edge(e1, id + 1, id + 2, top_right, bottom_right)
        e3 == add_edge(e2, id + 2, id + 3, bottom_right, bottom_left)
        e4 == add_edge(e3, id + 3, id, bottom_left, top_left)
    IN [next_edge_id |-> id + 4, edges |-> e4]

\* LoopsIter::new fails its assertion when two edges have the same id.
HasDuplicateIds(edges_vec) ==
    \E i, j \in 1..Len(edges_vec) : i < j /\ edges_vec[i].id = edges_vec[j].id

\* LoopIter: edges is the map (the set of its values, ids distinct); the edge
\* with id next_id is removed and yielded until the map has no such edge.
\* The result is the edges yielded, in order, and the map left.
RECURSIVE LoopIter(_, _, _)
LoopIter(edges, next_id, yielded_edges) ==
    IF \E e \in edges : e.id = next_id
    THEN LET edge == CHOOSE e \in edges : e.id = next_id
         IN LoopIter(edges \ {edge}, edge.next, Append(yielded_edges, edge))
    ELSE [loop |-> yielded_edges, edges |-> edges]

\* LoopsIter::next until None, each loop consumed to its end: the loops in
\* the order they are yielded. A loop starts at the edge of the least id.
RECURSIVE LoopsIter_next(_, _)
LoopsIter_next(edges, yielded_loops) ==
    IF edges = {} THEN yielded_loops
    ELSE LET first_id == CHOOSE x \in {e.id : e \in edges} :
                             \A e \in edges : x <= e.id
             l == LoopIter(edges, first_id, <<>>)
         IN LoopsIter_next(l.edges, Append(yielded_loops, l.loop))

LoopsIter(edges_vec) == LoopsIter_next({edges_vec[k] : k \in 1..Len(edges_vec)}, <<>>)

\* LoopPairIter over the edges of one loop: each edge with the one yielded
\* after it, then the last with the first (a loop of one edge gives that
\* edge with itself).
LoopPairIter(loop) == [k \in 1..Len(loop) |-> <<loop[k], loop[(k % Len(loop)) + 1]>>]

\* assert_eq!(edge.end, next_edge.start) of draw_range_border fails for some
\* pair of some loop.
AssertEqFails(yielded_loops) ==
    \E i \in 1..Len(yielded_loops) :
        \E k \in 1..Len(yielded_loops[i]) :
            LET pair == LoopPairIter(yielded_loops[i])[k]
            IN pair[1].end # pair[2].start

\* The extraction of the loops of a border, as draw_range_border and the
\* regression test run it: panic when LoopsIter::new fails; otherwise the
\* loops LoopsIter yields and whether the assertion on the pairs fails.
ExtractedLoops(edges_vec) ==
    IF HasDuplicateIds(edges_vec)
    THEN [panic |-> TRUE, loops |-> <<>>, assert_eq_fails |-> FALSE]
    ELSE LET yielded_loops == LoopsIter(edges_vec)
         IN [panic |-> FALSE, loops |-> yielded_loops,
             assert_eq_fails |-> AssertEqFails(yielded_loops)]

---------------------------------------------------------------------------
(* BorderSpec: rectangles are added to a border one add_rect call per      *)
(* step, then its loops are extracted.                                     *)

Rect(x0, y0, x1, y1) == <<CellCoords(x0, y0), CellCoords(x1, y1)>>

\* The non-degenerate rectangles of the grid (top_left, bottom_right).
GridRects ==
    UNION {{Rect(x0, y0, x1, y1) : x1 \in (x0 + 1)..GridW, y1 \in (y0 + 1)..GridH} :
               x0 \in 0..(GridW - 1), y0 \in 0..(GridH - 1)}

\* The rectangles of test_perimeter_broken_loop_bug, in its order.
TestRects ==
    << Rect(3, 2, 4, 3), Rect(0, 3, 1, 4), Rect(1, 3, 2, 4),
       Rect(2, 3, 3, 4), Rect(3, 3, 4, 4), Rect(4, 0, 8, 4) >>

\* Two rectangles have no interior point in common.
InteriorDisjoint(a, b) ==
    \/ a[2].x <= b[1].x
    \/ b[2].x <= a[1].x
    \/ a[2].y <= b[1].y
    \/ b[2].y <= a[1].y

BorderInit ==
    /\ borderIdle
    /\ appIdle
    /\ fnIdle
    /\ iterIdle
    /\ cacheIdle
    /\ releaseBuild

\* range_border.add_rect(top_left, bottom_right) with a rectangle of the grid
\* that overlaps none of the rectangles added before.
AddRect ==
    /\ loops = Pending
    /\ Len(rects) < MaxRects
    /\ \E rect \in GridRects :
           /\ \A k \in 1..Len(rects) : InteriorDisjoint(rects[k], rect)
           /\ range_border' = add_rect(range_border, rect[1], rect[2])
           /\ rects' = Append(rects, rect)
    /\ UNCHANGED <<loops, fnVars, iterVars, cacheVars, appVars, overflow_checks>>

\* The next add_rect call of test_perimeter_broken_loop_bug.
AddTestRect ==
    /\ loops = Pending
    /\ Len(rects) < Len(TestRects)
    /\ rects = SubSeq(TestRects, 1, Len(rects))
    /\ LET rect == TestRects[Len(rects) + 1]
       IN /\ range_border' = add_rect(range_border, rect[1], rect[2])
          /\ rects' = Append(rects, rect)
    /\ UNCHANGED <<loops, fnVars, iterVars, cacheVars, appVars, overflow_checks>>

\* LoopsIter::new(range_border.edges) and the iteration over its loops.
ExtractLoops ==
    /\ loops = Pending
    /\ loops' = Done(ExtractedLoops(range_border.edges))
    /\ UNCHANGED <<range_border, rects, fnVars, iterVars, cacheVars, appVars, overflow_checks>>

BorderNext ==
    \/ AddRect
    \/ AddTestRect
    \/ ExtractLoops

BorderSpec == BorderInit /\ [][BorderNext]_vars

---------------------------------------------------------------------------
(* Properties of the boundary extraction (BorderSpec).                     *)

Extracted == loops.done /\ ~loops.value.panic

\* The geometry of a loop: the (start, end) of its edges, in order.
Geometry(loop) == [k \in 1..Len(loop) |-> <<loop[k].start, loop[k].end>>]

\* The top, right, bottom and left side of a rectangle, clockwise.
Perimeter(rect) ==
    LET top_left == rect[1]
        bottom_right == rect[2]
        top_right == CellCoords(bottom_right.x, top_left.y)
        bottom_left == CellCoords(top_left.x, bottom_right.y)
    IN << <<top_left, top_right>>, <<top_right, bottom_right>>,
          <<bottom_right, bottom_left>>, <<bottom_left, top_left>> >>

\* In a loop, each edge ends where the one after it starts, the last where
\* the first starts.
IsClosed(loop) ==
    /\ Len(loop) > 0
    /\ \A k \in 1..Len(loop) : LoopPairIter(loop)[k][1].end = LoopPairIter(loop)[k][2].start

\* Two rectangles have no point in common, boundary points included.
Apart(a, b) ==
    \/ a[2].x < b[1].x
    \/ b[2].x < a[1].x
    \/ a[2].y < b[1].y
    \/ b[2].y < a[1].y

NoTwoTouch == \A i, j \in 1..Len(rects) : i # j => Apart(rects[i], rects[j])

\* C14: when no two of the rectangles added touch (a single rectangle
\* included), LoopsIter yields exactly one loop per rectangle, and each loop
\* is the top, right, bottom and left edge of its rectangle, each ending
\* where the next starts.
C14_OneLoopPerRect ==
    Extracted /\ Len(rects) >= 1 /\ NoTwoTouch =>
        /\ Len(loops.value.loops) = Len(rects)
        /\ \A i \in 1..Len(rects) :
               /\ Cardinality({k \in 1..Len(loops.value.loops) :
                      Geometry(loops.value.loops[k]) = Perimeter(rects[i])}) = 1
        /\ \A k \in 1..Len(loops.value.loops) : IsClosed(loops.value.loops[k])

\* Three rectangles, no two touching, gave three loops.
C14_Witness ==
    /\ Extracted
    /\ Len(rects) = 3
    /\ NoTwoTouch
    /\ Len(loops.value.loops) = 3

\* Two rectangles lie side by side and one whole side of each is one whole
\* side of the other.
SharesFullSide(a, b) ==
    \/ /\ a[1].y = b[1].y /\ a[2].y = b[2].y
       /\ (a[2].x = b[1].x \/ b[2].x = a[1].x)
    \/ /\ a[1].x = b[1].x /\ a[2].x = b[2].x
       /\ (a[2].y = b[1].y \/ b[2].y = a[1].y)

\* The least rectangle that contains both.
UnionRect(a, b) == Rect(Min(a[1].x, b[1].x), Min(a[1].y, b[1].y), Max(a[2].x, b[2].x), Max(a[2].y, b[2].y))

\* A point lies in a rectangle, its boundary included.
InRect(p, rect) ==
    /\ rect[1].x <= p.x /\ p.x <= rect[2].x
    /\ rect[1].y <= p.y /\ p.y <= rect[2].y

\* Both ends of an edge are points of both rectangles.
OnSharedSide(edge, a, b) ==
    /\ InRect(edge.start, a) /\ InRect(edge.start, b)
    /\ InRect(edge.end, a) /\ InRect(edge.end, b)

SetOf(seq) == {seq[k] : k \in 1..Len(seq)}

\* C15: two rectangles that share one full side, added in either order, give
\* exactly one loop: the four edges of the perimeter of their union, closed,
\* with no edge on the shared side.
C15_SharedSideCancels ==
    Extracted /\ Len(rects) = 2 /\ SharesFullSide(rects[1], rects[2]) =>
        /\ Len(loops.value.loops) = 1
        /\ Len(loops.value.loops[1]) = 4
        /\ SetOf(Geometry(loops.value.loops[1])) =
               SetOf(Perimeter(UnionRect(rects[1], rects[2])))
        /\ IsClosed(loops.value.loops[1])
        /\ \A k \in 1..Len(range_border.edges) :
               ~OnSharedSide(range_border.edges[k], rects[1], rects[2])

\* The second rectangle lies above the first, on its whole top side, and the
\* loops have been extracted.
C15_Witness ==
    /\ Extracted
    /\ Len(rects) = 2
    /\ SharesFullSide(rects[1], rects[2])
    /\ rects[2][2].y = rects[1][1].y
    /\ Len(loops.value.loops) = 1

\* Following next from the k-th edge, over edges that are present, comes back
\* to that edge within as many steps as there are edges.
RECURSIVE ReturnsTo(_, _, _, _)
ReturnsTo(edges, id, target, steps) ==
    IF steps = 0 THEN FALSE
    ELSE \E k \in 1..Len(edges) :
             /\ edges[k].id = id
             /\ \/ edges[k].next = target
                \/ ReturnsTo(edges, edges[k].next, target, steps - 1)

\* The number of loops that yield an edge.
TimesYielded(edge, yielded_loops) ==
    Cardinality({<<i, k>> \in (1..Len(yielded_loops)) \X (1..Len(range_border.edges)) :
                     k <= Len(yielded_loops[i]) /\ yielded_loops[i][k] = edge})

\* C16: after add_rect calls with non-degenerate, pairwise interior-disjoint
\* rectangles, every edge's next is the id of an edge present, which starts
\* where this edge ends; following next from an edge returns to it; and the
\* extraction yields every edge in exactly one loop, with the assertion
\* edge.end == next_edge.start of draw_range_border holding for every pair.
C16_ClosedCycles ==
    LET edges == range_border.edges IN
    /\ \A k \in 1..Len(edges) :
           /\ \E n \in 1..Len(edges) :
                  /\ edges[n].id = edges[k].next
                  /\ edges[n].start = edges[k].end
           /\ ReturnsTo(edges, edges[k].id, edges[k].id, Len(edges))
    /\ loops.done =>
           /\ ~loops.value.panic
           /\ ~loops.value.assert_eq_fails
           /\ \A k \in 1..Len(edges) : TimesYielded(edges[k], loops.value.loops) = 1

TestDone == rects = TestRects /\ loops.done

\* C17: for the six rectangles of the regression test, in the test's order,
\* the extraction completes without aborting and yields a single closed
\* loop: every edge's next is present, the last edge of the loop ends where
\* its first starts, and no edge is left over in a second loop.
C17_TestGivesOneClosedLoop ==
    TestDone =>
        /\ ~loops.value.panic
        /\ ~loops.value.assert_eq_fails
        /\ Len(loops.value.loops) = 1
        /\ IsClosed(loops.value.loops[1])
        /\ Len(loops.value.loops[1]) = Len(range_border.edges)
        /\ \A k \in 1..Len(range_border.edges) :
               \E n \in 1..Len(range_border.edges) :
                   range_border.edges[n].id = range_border.edges[k].next

\* The test has run to its end and the loop it gave has eight edges.
C17_Witness ==
    /\ TestDone
    /\ Len(loops.value.loops) = 1
    /\ Len(loops.value.loops[1]) = 8

\* A unit segment of the grid lines: from (x, y) one cell to the right when
\* horizontal, one cell down when not.
Segment(horizontal, x, y) == [horizontal |-> horizontal, x |-> x, y |-> y]

\* The unit segments between two points of one grid line, in either
\* direction.
SegmentsBetween(start, end) ==
    IF start.y = end.y
    THEN {Segment(TRUE, x, start.y) : x \in Min(start.x, end.x)..(Max(start.x, end.x) - 1)}
    ELSE {Segment(FALSE, start.x, y) : y \in Min(start.y, end.y)..(Max(start.y, end.y) - 1)}

\* The unit segments of the four sides of a rectangle.
RectSegments(rect) == UNION {SegmentsBetween(side[1], side[2]) : side \in SetOf(Perimeter(rect))}

\* The number of rectangles added that have a unit segment on a side.
RectsAt(segment) == Cardinality({i \in 1..Len(rects) : segment \in RectSegments(rects[i])})

\* The number of edges of the border that cover a unit segment.
EdgesAt(segment) ==
    Cardinality({k \in 1..Len(range_border.edges) :
        segment \in SegmentsBetween(range_border.edges[k].start, range_border.edges[k].end)})

AllSegments ==
    UNION ({RectSegments(rects[i]) : i \in 1..Len(rects)} \cup
           {SegmentsBetween(range_border.edges[k].start, range_border.edges[k].end) :
                k \in 1..Len(range_border.edges)})

\* C18: after add_rect calls with non-degenerate, pairwise interior-disjoint
\* rectangles, the edges cover exactly the boundary of the union: a unit
\* segment on a side of exactly one rectangle is covered by exactly one edge,
\* and a unit segment shared by two rectangles, or on no rectangle's side,
\* by none.
C18_EdgesCoverUnionBoundary ==
    \A segment \in AllSegments :
        EdgesAt(segment) = IF RectsAt(segment) = 1 THEN 1 ELSE 0

---------------------------------------------------------------------------
(* Properties of next_range_block (CallSpec).                              *)

\* The call of next_range_block returned a block.
ReturnedBlock ==
    /\ Called("next_range_block")
    /\ ~ret.value.panic
    /\ ret.value.value # None

\* The search start is far below u64::MAX: no rounding and no skip of the
\* search wraps.
SearchIsExact == args.search_start_index >= 0

RejectedBlocks ==
    {c \in args.fn_filter :
        /\ c[1] >= args.search_start_index
        /\ \E i \in args.target_recursion_level..args.max_recursion_level :
               c[2] = range_block_size(i, args.sub_block_sqrt)}

\* C22: a block returned by next_range_block is never contained in an
\* aligned block of a level between the target level and the ceiling,
\* starting at or after the search start, for which the predicate returns
\* false.
C22_RejectedBlockSkippedEntirely ==
    ReturnedBlock /\ SearchIsExact =>
        \A c \in RejectedBlocks : ~Within(ret.value.value[1], c)

---------------------------------------------------------------------------
(* AppSpec: the HexApp. A file dropped into the window replaces the buffer *)
(* of the active file and the caches are regenerated; the active file is   *)
(* switched from the top bar.                                              *)

\* The buffers the application holds: empty, one byte, a few bytes, and one
\* and two blocks of the first cached level.
AppBuffers ==
    {Buffer(len, seed) : len \in {0, 1, MaxBufLen, ScenarioLen, ScenarioLen + 1},
                         seed \in 0..MaxSeed}

\* HexApp::new with data0 and data1 the two random patterns, each followed
\* by the bytes 0..=255. The difference cache starts empty.
HexApp_new(pattern0, pattern1) ==
    [pattern0 |-> Some(pattern0),
     pattern1 |-> Some(pattern1),
     cache0 |-> generate(RangeBlockSum(pattern0), Len(pattern0), SUB_BLOCK_SQRT),
     cache1 |-> generate(RangeBlockSum(pattern1), Len(pattern1), SUB_BLOCK_SQRT),
     diff_cache |-> EmptyCache,
     color_cache_value0 |->
         generate(RangeBlockColorSum(pattern0), Len(pattern0), SUB_BLOCK_SQRT),
     color_cache_value1 |->
         generate(RangeBlockColorSum(pattern1), Len(pattern1), SUB_BLOCK_SQRT),
     color_cache_semantic01_0 |->
         generate(RangeBlockSemantic01Sum(pattern0), Len(pattern0), SUB_BLOCK_SQRT),
     color_cache_semantic01_1 |->
         generate(RangeBlockSemantic01Sum(pattern1), Len(pattern1), SUB_BLOCK_SQRT),
     active_file |-> "File0"]

AppInit ==
    /\ releaseBuild
    /\ fnIdle
    /\ iterIdle
    /\ cacheIdle
    /\ borderIdle
    /\ \E pattern0 \in AppBuffers, pattern1 \in AppBuffers :
           hex_app = HexApp_new(pattern0, pattern1)

\* The regeneration of the difference cache at the end of a drop, when both
\* buffers are loaded.
RegenerateDiff(app) ==
    IF app.pattern0 # None /\ app.pattern1 # None
    THEN [app EXCEPT !.diff_cache =
              generate(RangeBlockDiff(app.pattern0[1], app.pattern1[1]),
                       Max(Len(app.pattern0[1]), Len(app.pattern1[1])),
                       SUB_BLOCK_SQRT)]
    ELSE app

\* The part of HexApp::update that handles the first dropped file whose
\* bytes are given.
DropOnActiveFile(app, bytes) ==
    IF app.active_file = "File0"
    THEN RegenerateDiff(
             [app EXCEPT
                  !.pattern0 = Some(bytes),
                  !.cache0 = generate(RangeBlockSum(bytes), Len(bytes), SUB_BLOCK_SQRT),
                  !.color_cache_value0 =
                      generate(RangeBlockColorSum(bytes), Len(bytes), SUB_BLOCK_SQRT),
                  !.color_cache_semantic01_0 =
                      generate(RangeBlockSemantic01Sum(bytes), Len(bytes), SUB_BLOCK_SQRT)])
    ELSE RegenerateDiff(
             [app EXCEPT
                  !.pattern1 = Some(bytes),
                  !.cache1 = generate(RangeBlockSum(bytes), Len(bytes), SUB_BLOCK_SQRT),
                  !.color_cache_value1 =
                      generate(RangeBlockColorSum(bytes), Len(bytes), SUB_BLOCK_SQRT),
                  !.color_cache_semantic01_1 =
                      generate(RangeBlockSemantic01Sum(bytes), Len(bytes), SUB_BLOCK_SQRT)])

\* HexApp::update in a frame with a dropped file whose bytes are loaded.
UpdateDroppedFile ==
    /\ \E bytes \in AppBuffers : hex_app' = DropOnActiveFile(hex_app, bytes)
    /\ UNCHANGED <<fnVars, iterVars, cacheVars, borderVars, overflow_checks>>

\* top_bar: the F shortcut or the File0 / File1 selector changes the active
\* file.
SwitchActiveFile ==
    /\ \E file \in {"File0", "File1"} :
           /\ file # hex_app.active_file
           /\ hex_app' = [hex_app EXCEPT !.active_file = file]
    /\ UNCHANGED <<fnVars, iterVars, cacheVars, borderVars, overflow_checks>>

AppNext ==
    \/ UpdateDroppedFile
    \/ SwitchActiveFile

AppSpec == AppInit /\ [][AppNext]_vars

---------------------------------------------------------------------------
(* Properties of the application's caches (AppSpec).                       *)

\* Every cache is what generate gives for the buffers now loaded; the
\* difference cache may still be the empty one HexApp::new made.
CachesAreRegenerated ==
    LET p0 == hex_app.pattern0[1]
        p1 == hex_app.pattern1[1]
    IN /\ hex_app.cache0 = generate(RangeBlockSum(p0), Len(p0), SUB_BLOCK_SQRT)
       /\ hex_app.cache1 = generate(RangeBlockSum(p1), Len(p1), SUB_BLOCK_SQRT)
       /\ hex_app.color_cache_value0 =
              generate(RangeBlockColorSum(p0), Len(p0), SUB_BLOCK_SQRT)
       /\ hex_app.color_cache_value1 =
              generate(RangeBlockColorSum(p1), Len(p1), SUB_BLOCK_SQRT)
       /\ hex_app.color_cache_semantic01_0 =
              generate(RangeBlockSemantic01Sum(p0), Len(p0), SUB_BLOCK_SQRT)
       /\ hex_app.color_cache_semantic01_1 =
              generate(RangeBlockSemantic01Sum(p1), Len(p1), SUB_BLOCK_SQRT)
       /\ \/ hex_app.diff_cache = EmptyCache
          \/ hex_app.diff_cache =
                 generate(RangeBlockDiff(p0, p1), Max(Len(p0), Len(p1)), SUB_BLOCK_SQRT)

\* Every entry of a cache is the value its aggregator computes for the
\* entry's block.
HoldsAggregatesOf(values, cacheable) ==
    \A key \in DOMAIN values : values[key] = value(cacheable, key[1], key[2])

\* C23: after any sequence of file drops on either file slot and switches of
\* the active file, every entry of each cache is the aggregate of the
\* buffers currently loaded: cache0 and the colour caches of file 0 describe
\* pattern0, those of file 1 pattern1, and diff_cache the pair (pattern0,
\* pattern1).
C23_CachesDescribeLoadedBuffers ==
    LET p0 == hex_app.pattern0[1]
        p1 == hex_app.pattern1[1]
    IN /\ HoldsAggregatesOf(hex_app.cache0, RangeBlockSum(p0))
       /\ HoldsAggregatesOf(hex_app.cache1, RangeBlockSum(p1))
       /\ HoldsAggregatesOf(hex_app.color_cache_value0, RangeBlockColorSum(p0))
       /\ HoldsAggregatesOf(hex_app.color_cache_value1, RangeBlockColorSum(p1))
       /\ HoldsAggregatesOf(hex_app.color_cache_semantic01_0, RangeBlockSemantic01Sum(p0))
       /\ HoldsAggregatesOf(hex_app.color_cache_semantic01_1, RangeBlockSemantic01Sum(p1))
       /\ HoldsAggregatesOf(hex_app.diff_cache, RangeBlockDiff(p0, p1))

---------------------------------------------------------------------------
(* Properties of the order of the blocks (IterSpec).                       *)

\* C24: for both iterators, with any predicate, successive calls of next
\* return aligned blocks (offset a multiple of length) with strictly
\* increasing offsets that never overlap: each returned offset is >= the
\* previous offset plus the previous length.
C24_IncreasingDisjointBlocks ==
    \A k \in 1..Len(yielded) :
        /\ yielded[k][2] >= 1
        /\ yielded[k][1] % yielded[k][2] = 0
        /\ k > 1 =>
               /\ yielded[k][1] > yielded[k - 1][1]
               /\ yielded[k][1] >= BlockEnd(yielded[k - 1])

\* A filtered iteration has returned a block that does not follow the one
\* before it directly: the blocks between them were skipped.
C24_Witness ==
    /\ iter0.kind = "RangeBlockIterator"
    /\ iter0.fn_filter # {}
    /\ Len(yielded) >= 3
    /\ \E k \in 2..Len(yielded) : yielded[k][1] > BlockEnd(yielded[k - 1])

---------------------------------------------------------------------------
(* SearchSpec: an iterator is constructed and next() is called until it    *)
(* returns None. A call of next_range_block takes one step per turn of its *)
(* loop; args holds the call's two mutable locals while it runs. The       *)
(* predicate is an FnMut the caller supplies: it is no part of the state,  *)
(* and each answer is drawn when the loop asks for it.                     *)

\* Largest search start and data length drawn for the search.
MaxSearchLen == 20

SearchIteratorNew ==
    UNION {[kind : {"RangeBlockIterator"},
            search_start_index : 0..MaxSearchLen,
            data_len : 0..MaxSearchLen,
            target_recursion_level : {t},
            max_recursion_level : t..MaxCallLevel,
            sub_block_sqrt : 2..MaxIterSqrt] : t \in 0..MaxCallLevel}

SearchCompleteLargestNew ==
    [kind : {"CompleteLargestRangeBlockIterator"},
     search_start_index : 0..MaxSearchLen,
     search_end_index : 0..MaxSearchLen,
     max_recursion_level : 0..MaxCallLevel,
     sub_block_sqrt : 2..MaxIterSqrt]

SearchInit ==
    /\ \/ iter \in SearchIteratorNew
       \/ iter \in SearchCompleteLargestNew
    /\ iter0 = iter
    /\ yielded = <<>>
    /\ exhausted = FALSE
    /\ fnIdle
    /\ cacheIdle
    /\ borderIdle
    /\ appIdle
    /\ releaseBuild

Searching == args # Idle

\* The first aligned index at or after the running call's search start.
SearchAlignedIndex ==
    next_multiple_of(args.search_start_index,
                     range_block_size(iter.target_recursion_level, iter.sub_block_sqrt))

\* The highest level up to the running call's ceiling that the aligned index
\* is aligned to.
SearchAlignedLevel ==
    SetMax({i \in iter.target_recursion_level..args.max_recursion_level :
               SearchAlignedIndex % range_block_size(i, iter.sub_block_sqrt) = 0})

SearchAlignedBlockSize == range_block_size(SearchAlignedLevel, iter.sub_block_sqrt)

\* Mutant: a rejected block is not stepped over.
skip_rejected_stays(next_aligned_index, block_size) == next_aligned_index

\* Where the search goes on after the predicate rejected a block.
skip_rejected(next_aligned_index, block_size) == next_aligned_index + block_size

\* RangeBlockIterator::next calls next_range_block with its fields; both
\* asserts hold for every iterator drawn.
SearchBegins ==
    /\ iter.kind = "RangeBlockIterator"
    /\ ~exhausted
    /\ ~Searching
    /\ iter.sub_block_sqrt > 1
    /\ iter.target_recursion_level <= iter.max_recursion_level
    /\ args' = [fn |-> "next_range_block",
                search_start_index |-> iter.search_start_index,
                max_recursion_level |-> iter.max_recursion_level]
    /\ ret' = Pending
    /\ UNCHANGED <<iterVars, cacheVars, borderVars, appVars, overflow_checks>>

\* No aligned index is left below data_len: the call returns None, and so
\* does next().
SearchReturnsNone ==
    /\ Searching
    /\ SearchAlignedIndex >= iter.data_len
    /\ args' = Idle
    /\ ret' = Done(Returns(None))
    /\ exhausted' = TRUE
    /\ UNCHANGED <<iter, iter0, yielded, cacheVars, borderVars, appVars,
                   overflow_checks>>

\* The predicate accepts a block of the target level: the call returns it
\* and next() moves the cursor past it.
SearchReturnsBlock ==
    /\ Searching
    /\ SearchAlignedIndex < iter.data_len
    /\ SearchAlignedLevel = iter.target_recursion_level
    /\ args' = Idle
    /\ ret' = Done(Returns(Some(<<SearchAlignedIndex, SearchAlignedBlockSize>>)))
    /\ iter' = [iter EXCEPT !.search_start_index =
                                SearchAlignedIndex + SearchAlignedBlockSize]
    /\ UNCHANGED <<iter0, yielded, exhausted, cacheVars, borderVars, appVars,
                   overflow_checks>>

\* The predicate accepts a block above the target level: the ceiling is
\* lowered by one.
SearchDescends ==
    /\ Searching
    /\ SearchAlignedIndex < iter.data_len
    /\ SearchAlignedLevel > iter.target_recursion_level
    /\ args' = [args EXCEPT !.max_recursion_level = @ - 1]
    /\ UNCHANGED <<ret, iterVars, cacheVars, borderVars, appVars, overflow_checks>>

\* The predicate rejects the block: the search goes on after it.
SearchSkips ==
    /\ Searching
    /\ SearchAlignedIndex < iter.data_len
    /\ args' = [args EXCEPT !.search_start_index =
                                skip_rejected(SearchAlignedIndex,
                                              SearchAlignedBlockSize)]
    /\ UNCHANGED <<ret, iterVars, cacheVars, borderVars, appVars, overflow_checks>>

\* CompleteLargestRangeBlockIterator::next.
SearchCompleteLargestNext ==
    /\ iter.kind = "CompleteLargestRangeBlockIterator"
    /\ ~exhausted
    /\ \E r \in {next_complete_largest_range_block(
                     iter.search_start_index, iter.search_end_index,
                     iter.max_recursion_level, iter.sub_block_sqrt)} :
           /\ ~r.panic
           /\ ret' = Done(r)
           /\ IF r.value # None
              THEN /\ iter' = [iter EXCEPT !.search_start_index =
                                               r.value[1][1] + r.value[1][2]]
                   /\ UNCHANGED exhausted
              ELSE /\ exhausted' = TRUE
                   /\ UNCHANGED iter
    /\ UNCHANGED <<args, iter0, yielded, cacheVars, borderVars, appVars,
                   overflow_checks>>

SearchNext ==
    \/ SearchBegins
    \/ SearchReturnsNone
    \/ SearchReturnsBlock
    \/ SearchDescends
    \/ SearchSkips
    \/ SearchCompleteLargestNext

\* The program runs on: a turn that can be taken is taken, and the caller's
\* for loop calls next() until it returns None.
SearchSpec == SearchInit /\ [][SearchNext]_vars /\ WF_vars(SearchNext)

\* C25: with B > 1 and target <= ceiling, every call of next_range_block
\* terminates for any predicate, even one that answers arbitrarily or changes
\* its answers between calls, and both iterators return None after finitely
\* many calls of next. A turn that only repeats itself is a step that leaves
\* the state as it is, so the first conjunct asks of every turn that a
\* rejection moves the search forward.
C25_SearchTerminates ==
    /\ [](Searching /\ SearchAlignedIndex < iter.data_len =>
              skip_rejected(SearchAlignedIndex, SearchAlignedBlockSize)
                  > args.search_start_index)
    /\ [](Searching => <>(~Searching))
    /\ <>exhausted

\* A RangeBlockIterator with a ceiling above its target has returned blocks
\* and then None.
C25_Witness ==
    /\ iter.kind = "RangeBlockIterator"
    /\ iter.target_recursion_level < iter.max_recursion_level
    /\ iter.search_start_index > iter0.search_start_index + 1
    /\ exhausted
    /\ ~Searching
    /\ ret = Done(Returns(None))

---------------------------------------------------------------------------
(* Properties of next_complete_largest_range_block (CallSpec).             *)

\* A block of level L at args.index divides the index and ends at or before
\* the limit.
FitsAtLevel(L) ==
    /\ args.index % Pow(args.sub_block_sqrt, 2 * L) = 0
    /\ args.index + Pow(args.sub_block_sqrt, 2 * L) <= args.limit_index

\* C26: next_complete_largest_range_block(index, limit, ceiling, B) returns
\* (index, B^(2L)) for the highest level L <= ceiling such that B^(2L) divides
\* index and index + B^(2L) <= limit; it returns None exactly when
\* index >= limit.
C26_LargestCompleteBlock ==
    (/\ args.fn = "next_complete_largest_range_block"
     /\ ret.done
     /\ ~ret.value.panic)
    => /\ (ret.value.value = None) <=> (args.index >= args.limit_index)
       /\ ret.value.value # None =>
              \E L \in 0..args.max_recursion_level :
                  /\ FitsAtLevel(L)
                  /\ \A M \in (L + 1)..args.max_recursion_level : ~FitsAtLevel(M)
                  /\ ret.value.value[1] = <<args.index, Pow(args.sub_block_sqrt, 2 * L)>>

\* A call returned a block above level 0 although the ceiling allowed a
\* higher level still, which is aligned but passes the limit.
C26_Witness ==
    /\ args.fn = "next_complete_largest_range_block"
    /\ ret.done
    /\ ~ret.value.panic
    /\ ret.value.value # None
    /\ ret.value.value[1][2] > 1
    /\ \E M \in 0..args.max_recursion_level :
           /\ Pow(args.sub_block_sqrt, 2 * M) > ret.value.value[1][2]
           /\ args.index % Pow(args.sub_block_sqrt, 2 * M) = 0

---------------------------------------------------------------------------
(* Properties of range_block_corners (Spec).                               *)

\* The offsets whose cells are compared with the square: the blocks drawn
\* and as many offsets again after the last of them.
CornerProbes == 0..(2 * MaxCellIndex + 1)

\* The cell at `cell` lies in the square from top_left to the exclusive
\* bottom_right.
InSquare(cell, top_left, bottom_right) ==
    /\ top_left.x <= cell.x /\ cell.x < bottom_right.x
    /\ top_left.y <= cell.y /\ cell.y < bottom_right.y

\* C27: for every aligned block (offset a multiple of length, length =
\* B^(2L), B > 1), range_block_corners returns a top-left and an exclusive
\* bottom-right corner that bound a square of side B^L, and the cell of every
\* offset in [offset, offset+length) lies inside that square while the cell
\* of no other offset does.
C27_CornersBoundTheBlock ==
    Called("range_block_corners") =>
        LET top_left == ret.value[1]
            bottom_right == ret.value[2]
            side == Pow(args.sub_block_sqrt, args.level)
        IN /\ bottom_right.x - top_left.x = side
           /\ bottom_right.y - top_left.y = side
           /\ \A offset \in CornerProbes :
                  InSquare(get_cell_offset(offset, args.sub_block_sqrt),
                           top_left, bottom_right)
                  <=> (args.index <= offset /\ offset < args.index + args.count)

\* The corners of a block of level 2 that is not the first of its level.
C27_Witness ==
    /\ Called("range_block_corners")
    /\ args.level = 2
    /\ args.index > 0
    /\ ret.value[1].x + ret.value[1].y > 0

---------------------------------------------------------------------------
(* Properties of the filtered iteration (IterSpec).                        *)

\* The predicates that are closed under containment up to a ceiling: every
\* aligned block within a rejected block of a level up to the ceiling is
\* rejected too, so an accepted block has no rejected block around it.
ClosedFilters ==
    [b \in 2..MaxIterSqrt |->
        [m \in 0..MaxIterLevel |->
            {f \in Filters(b) :
                \A r \in f :
                    r[2] <= range_block_size(m, b) =>
                        \A a \in AlignedBlocks(b) : Within(a, r) => a \in f}]]

IsClosedUnderContainment ==
    /\ iter0.kind = "RangeBlockIterator"
    /\ iter0.fn_filter \in ClosedFilters[iter0.sub_block_sqrt][iter0.max_recursion_level]

\* The offsets of the target-level blocks that start at or after the search
\* start and below data_len and that the predicate accepts.
AcceptedOffsets ==
    LET size == range_block_size(iter0.target_recursion_level, iter0.sub_block_sqrt)
    IN {o \in 0..MaxIterLen :
           /\ o % size = 0
           /\ iter0.search_start_index <= o
           /\ o < iter0.data_len
           /\ <<o, size>> \notin iter0.fn_filter}

\* C28: for a deterministic predicate closed under containment,
\* RangeBlockIterator returns exactly the target-level blocks with offset in
\* [search start rounded up to the target size, data_len) that the predicate
\* accepts, in increasing offset order: every block returned is one of them,
\* the offsets returned increase, none of them before the last one returned
\* is missing, and none at all once next has returned None.
C28_ExactlyTheAcceptedBlocks ==
    IsClosedUnderContainment =>
        \E accepted \in {AcceptedOffsets} :
        \E returned \in {{yielded[k][1] : k \in 1..Len(yielded)}} :
            /\ \A k \in 1..Len(yielded) :
                   /\ yielded[k][2] = range_block_size(iter0.target_recursion_level,
                                                       iter0.sub_block_sqrt)
                   /\ yielded[k][1] \in accepted
                   /\ k > 1 => yielded[k - 1][1] < yielded[k][1]
            /\ \A o \in accepted :
                   (yielded # <<>> /\ o < yielded[Len(yielded)][1]) => o \in returned
            /\ exhausted => accepted \subseteq returned

\* An iteration under a closed predicate has ended; the predicate rejects a
\* block above the target level within the data, and blocks were returned on
\* both sides of it.
C28_Witness ==
    /\ IsClosedUnderContainment
    /\ exhausted
    /\ iter0.target_recursion_level < iter0.max_recursion_level
    /\ \E r \in iter0.fn_filter :
           /\ r[2] > range_block_size(iter0.target_recursion_level, iter0.sub_block_sqrt)
           /\ r[2] <= range_block_size(iter0.max_recursion_level, iter0.sub_block_sqrt)
           /\ \E j, k \in 1..Len(yielded) :
                  /\ BlockEnd(yielded[j]) <= r[1]
                  /\ yielded[k][1] >= BlockEnd(r)

---------------------------------------------------------------------------
(* AnyBorderSpec: add_rect is called with any two corners, so a rectangle  *)
(* may be degenerate (no width or no height), inverted (bottom_right left  *)
(* of or above top_left) or overlap the ones added before.                 *)

\* The corners are drawn from the points (0..AnyGrid) x (0..AnyGrid).
AnyGrid == 2
\* Most add_rect calls in a behaviour of AnyBorderSpec.
MaxAnyRects == 3

AnyCorners == {CellCoords(x, y) : x \in 0..AnyGrid, y \in 0..AnyGrid}

\* range_border.add_rect(top_left, bottom_right) with any two corners.
AddAnyRect ==
    /\ loops = Pending
    /\ Len(rects) < MaxAnyRects
    /\ \E top_left \in AnyCorners, bottom_right \in AnyCorners :
           /\ range_border' = add_rect(range_border, top_left, bottom_right)
           /\ rects' = Append(rects, <<top_left, bottom_right>>)
    /\ UNCHANGED <<loops, fnVars, iterVars, cacheVars, appVars, overflow_checks>>

AnyBorderNext ==
    \/ AddAnyRect
    \/ ExtractLoops

AnyBorderSpec == BorderInit /\ [][AnyBorderNext]_vars

\* C29: after any sequence of add_rect calls, with any rectangles, all edges
\* in the edge set have distinct ids, so LoopsIter::new never fails its
\* uniqueness assertion.
C29_EdgeIdsAreDistinct ==
    /\ ~HasDuplicateIds(range_border.edges)
    /\ loops.done => ~loops.value.panic

\* The loops were extracted after three rectangles, one of them inverted and
\* two of them overlapping, had left an edge that carries an id of an earlier
\* rectangle beside edges of the last one.
C29_Witness ==
    /\ loops.done
    /\ Len(rects) = 3
    /\ \E k \in 1..3 : rects[k][2].x < rects[k][1].x
    /\ \E j, k \in 1..3 :
           /\ j < k
           /\ rects[j][1].x < rects[j][2].x /\ rects[j][1].y < rects[j][2].y
           /\ rects[k][1].x < rects[k][2].x /\ rects[k][1].y < rects[k][2].y
           /\ ~InteriorDisjoint(rects[j], rects[k])
    /\ \E e, f \in {range_border.edges[k] : k \in 1..Len(range_border.edges)} :
           e.id < 8 /\ f.id >= 8

---------------------------------------------------------------------------
(* Properties of the order of the add_rect calls (BorderSpec).             *)

RECURSIVE AddRects(_, _)
\* The RangeBorder after add_rect was called with each rectangle of
\* rect_seq in turn.
AddRects(self, rect_seq) ==
    IF rect_seq = <<>> THEN self
    ELSE AddRects(add_rect(self, Head(rect_seq)[1], Head(rect_seq)[2]), Tail(rect_seq))

\* The geometric edges (start, end) of an edge set.
GeometricEdges(edges_vec) ==
    {<<edges_vec[k].start, edges_vec[k].end>> : k \in 1..Len(edges_vec)}

\* C30: for any set of non-degenerate, pairwise interior-disjoint rectangles,
\* the set of geometric edges (start, end) left in the edge set after all
\* add_rect calls, and the number of loops LoopsIter yields, are the same for
\* every order in which the rectangles are added.
C30_OrderOfRectsIsImmaterial ==
    Len(rects) <= MaxRects =>
        \A order \in Permutations(1..Len(rects)) :
            LET other == AddRects([next_edge_id |-> 0, edges |-> <<>>],
                                  [k \in 1..Len(rects) |-> rects[order[k]]])
            IN /\ GeometricEdges(other.edges) = GeometricEdges(range_border.edges)
               /\ Len(LoopsIter(other.edges)) = Len(LoopsIter(range_border.edges))

===========================================================================
